---- MODULE Spec2Model ----
(***************************************************************************)
(* Parasnake: the coordinator (PSServer, ps_server.py), the worker         *)
(* (PSNode, ps_node.py) and the reference job of the test suite            *)
(* (TestServer / TestNode, tests/test_communication.py).                   *)
(*                                                                         *)
(* Time.  time.time() is kept relative to the present: an entry of         *)
(* all_nodes holds now - last_seen (the age of the node's last message),   *)
(* a sleeping task holds the time left of its asyncio.sleep.  Tick lets    *)
(* TimeStep seconds pass.  A sleep that is over wakes before more time     *)
(* passes, and in which order the tasks woken at one instant run is free.  *)
(* process_data may take any time; a handler of the coordinator, a sweep   *)
(* tick and the reading of a reply take less than TimeStep.                *)
(*                                                                         *)
(* Threads.  The coroutines of the coordinator run on one event loop: a    *)
(* handler runs from one await to the next in one step, and no handler     *)
(* runs while ps_main_loop is between two sleeps.  The callbacks started   *)
(* with asyncio.to_thread run on pool threads under self.lock, in parallel *)
(* with the loop thread, which calls ps_is_job_done and ps_node_timeout    *)
(* itself, without the lock.  A callback is entered in one step and runs   *)
(* to its return in a later one, so a callback of the loop and one of a    *)
(* pool thread can be under way at once.  Their reads and writes are not   *)
(* interleaved further: a handler refreshes its node's entry of all_nodes  *)
(* before it calls back and ends within TimeStep, so the sweep passes      *)
(* other nodes to ps_node_timeout, and the callbacks written access by     *)
(* access below meet on no entry in an order no serial run has.            *)
(***************************************************************************)
EXTENDS Integers, Sequences, FiniteSets, TLC

\* ---------------------------------------------------------------- bounds
\* Node ids (PSNodeId) are 1..NumNodes.
NumNodes == 2
\* Units of work of the reference job (the tests use 10).
NumUnits == 2
\* Largest configured quit_counter tried.
MaxQuitCounter == 2
\* An asyncio.sleep of SweepPeriod seconds lasts StepsPerSweep clock steps.
StepsPerSweep == 1
\* Calls of ps_node_timeout counted per node id since its last message (the
\* count saturates here).
MaxCalls == 2
\* Most entries of TestServer.timeout_nodes kept.
MaxTimeoutNodes == 1
\* TestServer.max_value: a unit is done at this value (the tests use 50).
max_value == 20
\* Most worker processes that are killed.
MaxDead == 1
\* Most connections open at a time when requests come from outside.
MaxOpen == 2
\* The keys and the ivs of Fernet that are tried.
NumKeys == 2
NumIVs == 2
\* The longest secret key that is tried.
MaxKeyLen == 33
\* The longest silence of a node in a check of the heartbeats, in seconds.
MaxSilence == 11

\* ------------------------------------------------------------- constants
SweepPeriod == 10
heartbeat_timeout == 10
NodeSleep == 10
Increment == 10
InitData == 10

\* Python's None (a payload is an integer >= 0 otherwise).
None == -1
\* No node id (a message without one).
NoNode == 0

\* The largest result computed: one step past max_value (a unit handed out
\* again at max_value is pushed past it; the model follows it one step).
MaxResult == max_value + Increment
Nodes == 1..NumNodes
Units == 1..NumUnits
Tasks == {"main", "hb"}
\* One connection at a time per worker task: the slots of open connections.
Conns == Nodes \X Tasks

TimeStep == SweepPeriod \div StepsPerSweep
AgeCap == heartbeat_timeout + TimeStep

Min(a, b) == IF a < b THEN a ELSE b
Max(a, b) == IF a > b THEN a ELSE b

\* ------------------------------------------------------------- messages
\* PSMessageType with its payload; ps_gen_*_message without the codec.
Msg(tag, n, d) == [tag |-> tag, node_id |-> n, data |-> d]
NoMsg == Msg("none", NoNode, None)
\* Bytes that decode_message does not accept.
Garbage == Msg("Garbage", NoNode, None)

\* The connection was closed without a reply frame.
EOF == Msg("EOF", NoNode, None)
\* The exchange has failed with an OSError that is no ConnectionRefusedError
\* (the connection could not be made, or was reset while the request was
\* written or the reply read).
Reset == Msg("Reset", NoNode, None)

ps_gen_init_message(n) == Msg("Init", n, None)
ps_gen_heartbeat_message(n) == Msg("Heartbeat", n, None)
\* The request for data without the id of the node.
ps_gen_need_more_data_message_anon(n) == Msg("NodeNeedsMoreData", NoNode, None)
ps_gen_need_more_data_message(n) == Msg("NodeNeedsMoreData", n, None)
\* The result message without the result.
ps_gen_result_message_none(n, r) == Msg("NewResultFromNode", n, None)
ps_gen_result_message(n, r) == Msg("NewResultFromNode", n, r)

ps_gen_quit_message == Msg("Quit", NoNode, None)
ps_gen_init_message_ok(d) == Msg("InitOK", NoNode, d)
ps_gen_init_message_error == Msg("InitError", NoNode, None)
ps_gen_heartbeat_message_ok == Msg("HeartbeatOK", NoNode, None)
ps_gen_heartbeat_message_error == Msg("HeartbeatError", NoNode, None)
\* The reply to NodeNeedsMoreData without the data.
ps_gen_new_data_message_empty(d) == Msg("NewDataFromServer", NoNode, None)
ps_gen_new_data_message(d) == Msg("NewDataFromServer", NoNode, d)
ps_gen_result_ok_message == Msg("ResultOK", NoNode, None)

\* ------------------------------------------------------------ dictionary
\* all_nodes is a Python dict: a sequence of entries in insertion order.
InDict(d, k) == \E i \in 1..Len(d) : d[i].id = k
DictGet(d, k) == d[CHOOSE i \in 1..Len(d) : d[i].id = k].age
\* The dict is replaced by one with the entry alone.
DictSet_alone(d, k, v) == << [id |-> k, age |-> v] >>

\* d[k] = v: replaces the value of an entry, appends a new one otherwise.
DictSet(d, k, v) ==
    IF InDict(d, k)
    THEN [i \in 1..Len(d) |-> IF d[i].id = k THEN [id |-> k, age |-> v] ELSE d[i]]
    ELSE Append(d, [id |-> k, age |-> v])
DictKeys(d) == {d[i].id : i \in 1..Len(d)}

VARIABLES
    \* PSServer
    all_nodes,      \* dict node id -> age of the last message
    quit,           \* self.quit
    quit_counter,   \* self.quit_counter
    lock,           \* self.lock: the connection whose pool thread holds it
    server_open,    \* the listener of asyncio.start_server accepts
    sweep_pc,       \* where ps_main_loop stands
    sweep_timer,    \* seconds left of its asyncio.sleep(10)
    sw,             \* locals of the callback ps_main_loop is running
    \* TestServer
    job_data,       \* list of WorkData
    active_nodes,   \* dict node id -> index of its unit
    timeout_nodes,  \* list of node ids
    \* connections and their handlers (ps_handle_node)
    req,            \* the request frame of the connection
    hpc,            \* where its handler stands
    thr,            \* the state of the handler's pool thread
    cb,             \* locals of the callback of the thread holding the lock
    ret,            \* what the pool thread returned
    reply,          \* the reply frame written to the connection
    \* PSNode
    alive,          \* the worker process runs
    mode,           \* mode of ps_main_loop
    mpc,            \* where the main task stands
    new_data,       \* the item process_data works on
    new_result,     \* its result
    init_data,      \* TestNode.init_data
    sleep_timer,    \* seconds left of the main task's sleep
    hpos,           \* where the heartbeat task stands
    hb_timer,       \* seconds left of its sleep
    \* observation
    timeout_calls,  \* calls of ps_node_timeout(n) since the last message of n
    older,          \* the task of the worker whose request was in hand when the other sent
    quit_seen,      \* a task of the worker has read a Quit reply
    save_calls,     \* calls of ps_save_data
    \* ps_message
    codec,          \* a value, its frame and what the frame decodes to
    \* ps_config
    conf,           \* a configuration file and what loading it gives
    \* ps_check_heartbeat
    hbc             \* the times of the nodes, now, and the ids passed to ps_node_timeout

vars == << all_nodes, quit, quit_counter, lock, server_open, sweep_pc, sweep_timer, sw,
           job_data, active_nodes, timeout_nodes,
           req, hpc, thr, cb, ret, reply,
           alive, mode, mpc, new_data, new_result, init_data, sleep_timer, hpos, hb_timer,
           timeout_calls, older, quit_seen, save_calls, codec, conf, hbc >>

server_vars == << all_nodes, quit, quit_counter, server_open, sweep_pc, sweep_timer, sw >>
user_vars == << job_data, active_nodes, timeout_nodes, save_calls >>
thread_vars == << lock, thr, cb, ret >>
conn_vars == << req, hpc, reply, older >>
task_vars == << alive, mode, mpc, new_data, new_result, init_data, sleep_timer, hpos, hb_timer >>
node_vars == << task_vars, quit_seen >>
pure_vars == << codec, conf, hbc >>

\* ------------------------------------------------ TestServer: user state
UserState == [job_data |-> job_data, active_nodes |-> active_nodes,
              timeout_nodes |-> timeout_nodes]

WorkData == [value |-> 0, assigned |-> FALSE]

\* d[k] = v and del d[k] for active_nodes (the order of its keys is never read).
MapSet(f, k, v) == [x \in DOMAIN f \cup {k} |-> IF x = k THEN v ELSE f[x]]
MapDel(f, k) == [x \in DOMAIN f \ {k} |-> f[x]]

\* ------------------------------- callbacks of the pool threads, by access
\* t: the locals of the call (pc, node, arg, index, i, ret); u: the user state.
NoCb == [pc |-> "none", node |-> NoNode, arg |-> None, index |-> 0, i |-> 0, ret |-> None]
CbEntry(fn, n, a) == [NoCb EXCEPT !.pc = fn, !.node = n, !.arg = a]
CbEnded(t) == t.pc \in {"return", "raise"}

\* TestServer.ps_get_init_data
ps_get_init_data(t, u) ==
    [t |-> [t EXCEPT !.pc = "return", !.ret = InitData], u |-> u]

\* TestServer.ps_get_new_data; "raise" is the KeyError of active_nodes[node_id].
ps_get_new_data(t, u) ==
    CASE t.pc = "gnd_in" ->
           [t |-> IF t.node \in DOMAIN u.active_nodes
                  THEN [t EXCEPT !.pc = "gnd_index"]
                  ELSE [t EXCEPT !.pc = "gnd_scan", !.i = 1],
            u |-> u]
      [] t.pc = "gnd_index" ->
           [t |-> IF t.node \in DOMAIN u.active_nodes
                  THEN [t EXCEPT !.pc = "gnd_value", !.index = u.active_nodes[t.node]]
                  ELSE [t EXCEPT !.pc = "raise"],
            u |-> u]
      [] t.pc = "gnd_value" ->
           [t |-> IF u.job_data[t.index].value < max_value
                  THEN [t EXCEPT !.pc = "return", !.ret = u.job_data[t.index].value]
                  ELSE [t EXCEPT !.pc = "gnd_scan", !.i = 1],
            u |-> u]
      [] t.pc = "gnd_scan" ->
           [t |-> IF t.i > NumUnits
                  THEN [t EXCEPT !.pc = "return", !.ret = None]
                  ELSE IF ~u.job_data[t.i].assigned
                  THEN [t EXCEPT !.pc = "gnd_assign"]
                  ELSE [t EXCEPT !.i = t.i + 1],
            u |-> u]
      [] t.pc = "gnd_assign" ->
           [t |-> [t EXCEPT !.pc = "gnd_mark"],
            u |-> [u EXCEPT !.active_nodes = MapSet(u.active_nodes, t.node, t.i)]]
      [] t.pc = "gnd_mark" ->
           [t |-> [t EXCEPT !.pc = "gnd_ret"],
            u |-> [u EXCEPT !.job_data[t.i].assigned = TRUE]]
      [] OTHER ->
           [t |-> [t EXCEPT !.pc = "return", !.ret = u.job_data[t.i].value], u |-> u]

\* TestServer.ps_process_result
ps_process_result(t, u) ==
    CASE t.pc = "pr_in" ->
           [t |-> IF t.node \in DOMAIN u.active_nodes
                  THEN [t EXCEPT !.pc = "pr_index"]
                  ELSE [t EXCEPT !.pc = "return"],
            u |-> u]
      [] t.pc = "pr_index" ->
           [t |-> IF t.node \in DOMAIN u.active_nodes
                  THEN [t EXCEPT !.pc = "pr_store", !.index = u.active_nodes[t.node]]
                  ELSE [t EXCEPT !.pc = "raise"],
            u |-> u]
      [] OTHER ->
           [t |-> [t EXCEPT !.pc = "return"],
            u |-> [u EXCEPT !.job_data[t.index].value = t.arg]]

\* One access of the callback a pool thread runs.
CbStep(t, u) ==
    IF t.pc = "gid" THEN ps_get_init_data(t, u)
    ELSE IF t.pc \in {"pr_in", "pr_index", "pr_store"} THEN ps_process_result(t, u)
    ELSE ps_get_new_data(t, u)

\* The callback from where it stands to its return.
RECURSIVE CbRun(_, _)
CbRun(t, u) ==
    IF CbEnded(t) THEN [t |-> t, u |-> u]
    ELSE LET n == CbStep(t, u) IN CbRun(n.t, n.u)

\* ------------------------------- callbacks of the loop thread, by access
\* s: the locals of ps_main_loop and of the callback it runs
\* (pc, i, ret, todo, index); u: the user state.
NoSw == [i |-> 0, ret |-> FALSE, todo |-> << >>, index |-> 0]
LoopCallbackPcs == {"is_job_done", "nto_in", "nto_index", "nto_release", "nto_del"}

\* ps_is_job_done answering true whatever the values are.
ps_is_job_done_always(pc, s, u) ==
    [pc |-> "job_done_ret", s |-> [s EXCEPT !.ret = TRUE], u |-> u]

\* TestServer.ps_is_job_done: one jd.value read per step.
ps_is_job_done(pc, s, u) ==
    IF u.job_data[s.i].value < max_value
    THEN [pc |-> "job_done_ret", s |-> [s EXCEPT !.ret = FALSE], u |-> u]
    ELSE IF s.i = NumUnits
    THEN [pc |-> "job_done_ret", s |-> [s EXCEPT !.ret = TRUE], u |-> u]
    ELSE [pc |-> pc, s |-> [s EXCEPT !.i = s.i + 1], u |-> u]

\* TestServer.ps_node_timeout(Head(s.todo)).
ps_node_timeout(pc, s, u) ==
    LET n == Head(s.todo) IN
    CASE pc = "nto_in" ->
           [pc |-> IF n \in DOMAIN u.active_nodes THEN "nto_index" ELSE "nto_ret",
            s |-> s, u |-> u]
      [] pc = "nto_index" ->
           [pc |-> "nto_release", s |-> [s EXCEPT !.index = u.active_nodes[n]], u |-> u]
      [] pc = "nto_release" ->
           [pc |-> "nto_del", s |-> s,
            u |-> [u EXCEPT !.job_data[s.index].assigned = FALSE,
                            !.timeout_nodes =
                                IF Len(u.timeout_nodes) < MaxTimeoutNodes
                                THEN Append(u.timeout_nodes, n)
                                ELSE u.timeout_nodes]]
      [] OTHER ->
           [pc |-> "nto_ret", s |-> s,
            u |-> [u EXCEPT !.active_nodes = MapDel(u.active_nodes, n)]]

SwStep(pc, s, u) ==
    IF pc = "is_job_done" THEN ps_is_job_done(pc, s, u) ELSE ps_node_timeout(pc, s, u)

RECURSIVE SwRun(_, _, _)
SwRun(pc, s, u) ==
    IF pc \notin LoopCallbackPcs THEN [pc |-> pc, s |-> s, u |-> u]
    ELSE LET n == SwStep(pc, s, u) IN SwRun(n.pc, n.s, n.u)


\* ------------------------------------------------------------ PSServer
NoConn == << NoNode, "none" >>

\* The event loop of the coordinator is free for a handler: ps_main_loop is
\* suspended in an await (its sleep, or wait_closed) or has returned; after
\* asyncio.run there is no handler left.
LoopFree == sweep_pc \in {"sleep", "closing", "returned", "exit"}

\* A callback is under way on the loop thread / on a pool thread.
LoopInCallback == sweep_pc \in LoopCallbackPcs
ThreadInCallback == lock # NoConn

\* The node is not put into the registry.
ps_register_new_node_skip(d, n) == d

\* The time of the node is set one clock step back.
ps_update_node_time_late(d, n) == DictSet(d, n, TimeStep)

\* The time of the node is left as it is.
ps_update_node_time_skip(d, n) == d

\* PSServer.ps_register_new_node and ps_update_node_time: all_nodes[node_id] = now.
ps_register_new_node(d, n) == DictSet(d, n, 0)
ps_update_node_time(d, n) == DictSet(d, n, 0)

\* The callbacks at their entry, the result of the request left behind.
CallbackOf_no_result(msg) ==
    IF msg.tag = "Init" THEN CbEntry("gid", msg.node_id, None)
    ELSE IF msg.tag = "NodeNeedsMoreData" THEN CbEntry("gnd_in", msg.node_id, None)
    ELSE CbEntry("pr_in", msg.node_id, None)

\* The user callback a request is handed to, at its entry.
CallbackOf(msg) ==
    IF msg.tag = "Init" THEN CbEntry("gid", msg.node_id, None)
    ELSE IF msg.tag = "NodeNeedsMoreData" THEN CbEntry("gnd_in", msg.node_id, None)
    ELSE CbEntry("pr_in", msg.node_id, msg.data)

\* The task at the other end of connection c waits for the reply (a client
\* that is no PSNode always does); otherwise it was killed or cancelled.
Waiting(c) == (IF c[2] = "main" THEN mpc[c[1]] ELSE hpos[c[1]]) \in {"wait", "off"}
PeerGone(c) == ~Waiting(c)

\* The handler of connection c has read its request and waits for its pool
\* thread: the request is unanswered.
Unanswered(c) == hpc[c] = "to_thread"

\* The other connection of the worker of c.
Other(c) == << c[1], IF c[2] = "main" THEN "hb" ELSE "main" >>

\* A request is sent on c: a request of the worker's other task that a
\* handler has in hand was sent before it.
Issued(c) == IF Unanswered(Other(c)) THEN [older EXCEPT ![c[1]] = Other(c)[2]] ELSE older

\* ps_write_msg, writer.close: the handler ends with reply m (which nobody
\* reads when the peer is gone).
WriteMsg(c, m) ==
    /\ reply' = [reply EXCEPT ![c] = IF PeerGone(c) THEN NoMsg ELSE m]
    /\ req' = [req EXCEPT ![c] = IF PeerGone(c) THEN NoMsg ELSE req[c]]
    /\ hpc' = [hpc EXCEPT ![c] = "idle"]
    /\ older' = [older EXCEPT ![c[1]] = "none"]

\* await asyncio.to_thread(...): the handler waits for a pool thread.
ToThread(c) ==
    /\ hpc' = [hpc EXCEPT ![c] = "to_thread"]
    /\ thr' = [thr EXCEPT ![c] = "waiting"]
    /\ UNCHANGED << req, reply, older >>

\* Every id is taken for a registered one.
Known_always(d, n) == TRUE

\* The registry is not looked up.
Known_never(d, n) == FALSE

\* node_id in self.all_nodes
Known(d, n) == InDict(d, n)

\* The match on the message of ps_handle_node, up to its first await or to
\* the reply.
Dispatch(c) ==
    LET msg == req[c]
        n == msg.node_id
    IN
    CASE msg.tag = "Init" ->
           IF Known(all_nodes, n)
           THEN WriteMsg(c, ps_gen_init_message_error) /\ UNCHANGED << all_nodes, thr >>
           ELSE all_nodes' = ps_register_new_node(all_nodes, n) /\ ToThread(c)
      [] msg.tag = "Heartbeat" ->
           IF Known(all_nodes, n)
           THEN /\ all_nodes' = ps_update_node_time(all_nodes, n)
                /\ WriteMsg(c, ps_gen_heartbeat_message_ok)
                /\ UNCHANGED thr
           ELSE /\ WriteMsg(c, ps_gen_heartbeat_message_error)
                /\ UNCHANGED << all_nodes, thr >>
      [] msg.tag = "NodeNeedsMoreData" ->
           IF Known(all_nodes, n)
           THEN all_nodes' = ps_update_node_time(all_nodes, n) /\ ToThread(c)
           ELSE WriteMsg(c, ps_gen_init_message_error) /\ UNCHANGED << all_nodes, thr >>
      [] msg.tag = "NewResultFromNode" ->
           IF Known(all_nodes, n)
           THEN all_nodes' = ps_update_node_time(all_nodes, n) /\ ToThread(c)
           ELSE WriteMsg(c, ps_gen_init_message_error) /\ UNCHANGED << all_nodes, thr >>
      [] OTHER ->
           \* no case of the match: nothing is written before writer.close()
           WriteMsg(c, EOF) /\ UNCHANGED << all_nodes, thr >>

\* Every frame is taken for a message.
Decodes_always(m) == TRUE

\* decode_message returns: the frame was made by encode_message with the
\* key of the coordinator.
Decodes(m) == m.tag # "Garbage"

\* decode_message raises in ps_handle_node: the handler ends there, nothing
\* is written and the connection is closed.
Undecodable(c) == WriteMsg(c, EOF) /\ UNCHANGED << all_nodes, thr >>

\* ps_handle_node without the test of self.quit.
ps_handle_node_no_quit(c) ==
    IF ~Decodes(req[c]) THEN Undecodable(c) ELSE Dispatch(c)

\* ps_handle_node from reader.read() to its first await after the match:
\* the frame is decoded, then self.quit is read.
ps_handle_node(c) ==
    IF ~Decodes(req[c]) THEN Undecodable(c)
    ELSE IF quit
    THEN WriteMsg(c, ps_gen_quit_message) /\ UNCHANGED << all_nodes, thr >>
    ELSE Dispatch(c)

\* The handler has written all_nodes[node_id]: a message of the node counts.
Touched(c) ==
    /\ ~quit
    /\ req[c].tag \in {"Init", "Heartbeat", "NodeNeedsMoreData", "NewResultFromNode"}
    /\ (req[c].tag = "Init") # Known(all_nodes, req[c].node_id)

HandleRequest(c) ==
    /\ hpc[c] = "read"
    /\ LoopFree
    /\ ps_handle_node(c)
    /\ timeout_calls' = IF Touched(c) THEN [timeout_calls EXCEPT ![req[c].node_id] = 0]
                        ELSE timeout_calls
    /\ UNCHANGED << quit, quit_counter, server_open, sweep_pc, sweep_timer, sw >>
    /\ UNCHANGED << user_vars, lock, cb, ret, node_vars >>
    /\ UNCHANGED pure_vars

\* The pool thread enters the callback without taking self.lock.
ThreadStart_nolock(c) ==
    /\ thr[c] = "waiting"
    /\ lock' = c
    /\ thr' = [thr EXCEPT ![c] = "running"]
    /\ cb' = CallbackOf(req[c])
    /\ UNCHANGED << server_vars, user_vars, conn_vars, ret, node_vars, timeout_calls >>
    /\ UNCHANGED pure_vars

\* ps_get_*_lock / ps_process_result_lock: with self.lock.
ThreadStart(c) ==
    /\ thr[c] = "waiting"
    /\ lock = NoConn
    /\ lock' = c
    /\ thr' = [thr EXCEPT ![c] = "running"]
    /\ cb' = CallbackOf(req[c])
    /\ UNCHANGED << server_vars, user_vars, conn_vars, ret, node_vars, timeout_calls >>
    /\ UNCHANGED pure_vars

\* The callback under the lock, from its entry to its end, where the lock
\* is released.
ThreadStep(c) ==
    /\ thr[c] = "running"
    /\ LET r == CbRun(cb, UserState) IN
       /\ job_data' = r.u.job_data
       /\ active_nodes' = r.u.active_nodes
       /\ timeout_nodes' = r.u.timeout_nodes
       /\ UNCHANGED save_calls
       /\ lock' = NoConn
       /\ cb' = NoCb
       /\ thr' = [thr EXCEPT ![c] = IF r.t.pc = "raise" THEN "raised" ELSE "returned"]
       /\ ret' = [ret EXCEPT ![c] = r.t.ret]
    /\ UNCHANGED << server_vars, conn_vars, node_vars, timeout_calls >>
    /\ UNCHANGED pure_vars

\* The callback of the user raises at its entry: the with statement
\* releases the lock and asyncio.to_thread hands the exception to the handler.
ThreadRaise(c) ==
    /\ thr[c] = "running"
    /\ lock' = NoConn
    /\ cb' = NoCb
    /\ thr' = [thr EXCEPT ![c] = "raised"]
    /\ UNCHANGED << ret, server_vars, user_vars, conn_vars, node_vars, timeout_calls >>
    /\ UNCHANGED pure_vars

\* ps_handle_node after the await of the pool thread: the reply, or the
\* exception of the callback, which ends the handler before it writes.
HandleResume(c) ==
    /\ hpc[c] = "to_thread"
    /\ thr[c] \in {"returned", "raised"}
    /\ LoopFree
    /\ WriteMsg(c, IF thr[c] = "raised" THEN EOF
                   ELSE IF req[c].tag = "Init" THEN ps_gen_init_message_ok(ret[c])
                   ELSE IF req[c].tag = "NodeNeedsMoreData" THEN ps_gen_new_data_message(ret[c])
                   ELSE ps_gen_result_ok_message)
    /\ thr' = [thr EXCEPT ![c] = "none"]
    /\ ret' = [ret EXCEPT ![c] = None]
    /\ UNCHANGED << server_vars, user_vars, lock, cb, node_vars, timeout_calls >>
    /\ UNCHANGED pure_vars

\* ------------------------------------------------- PSServer.ps_main_loop
\* The predicate of ps_check_heartbeat one clock step late.
NodeTimedOut_late(age) == age > heartbeat_timeout + TimeStep

\* Times are counted in tenths of a second where fractions matter.
Tenths == 10
\* int(x) of a float that is not negative.
int(x) == x \div Tenths

\* The predicate without int().
NodeTimedOutAt_exact(now, v) == now - v + Tenths > heartbeat_timeout * Tenths

\* ps_check_heartbeat: int(now - v + 1.0) > self.heartbeat_timeout, now and
\* v in tenths of a second.
NodeTimedOutAt(now, v) == int(now - v + Tenths) > heartbeat_timeout

\* The same for a node whose last message is age whole seconds old.
NodeTimedOut(age) == NodeTimedOutAt(age * Tenths, 0)

\* ps_check_heartbeat on the dict d of last times with time.time() = now:
\* the ids passed to ps_node_timeout, in the order of the calls.
RECURSIVE ps_check_heartbeat(_, _)
ps_check_heartbeat(d, now) ==
    IF d = << >> THEN << >>
    ELSE (IF NodeTimedOutAt(now, Head(d).seen) THEN << Head(d).id >> ELSE << >>)
         \o ps_check_heartbeat(Tail(d), now)

\* No check of the heartbeats is looked at.
NoCheck == [pc |-> "off", all_nodes |-> << >>, now |-> 0, called |-> << >>]

\* The dicts that are checked: any of the nodes registered, each with a
\* last message 0 s, 9 s, 9.5 s, 9.9 s, 10 s, 10.5 s or MaxSilence s before
\* now.
Elapsed == {0, 90, 95, 99, 100, 105, MaxSilence * Tenths}
Nows == {MaxSilence * Tenths, MaxSilence * Tenths + 5}
RECURSIVE Dicts(_, _)
Dicts(n, now) ==
    IF n = 0 THEN {<< >>}
    ELSE LET ds == Dicts(n - 1, now) IN
         ds \cup {Append(d, [id |-> n, seen |-> now - e]) : d \in ds, e \in Elapsed}

\* self.ps_check_heartbeat() in ps_main_loop.
CheckHeartbeat ==
    /\ hbc.pc = "ready"
    /\ hbc' = [hbc EXCEPT !.pc = "checked",
                          !.called = ps_check_heartbeat(hbc.all_nodes, hbc.now)]
    /\ UNCHANGED << server_vars, user_vars, thread_vars, conn_vars, node_vars, timeout_calls >>
    /\ UNCHANGED << codec, conf >>

\* ps_check_heartbeat: the ids the loop over all_nodes.items() passes to
\* ps_node_timeout, in the order of the dict; now is read once.
RECURSIVE TimedOut(_)
TimedOut(d) ==
    IF d = << >> THEN << >>
    ELSE IF NodeTimedOut(Head(d).age)
    THEN << Head(d).id >> \o TimedOut(Tail(d))
    ELSE TimedOut(Tail(d))

\* ps_node_timeout(n) is called.
CountCall(calls, n) == [calls EXCEPT ![n] = Min(@ + 1, MaxCalls)]

\* The state ps_main_loop works on from the end of one sleep to the next.
LoopState == [pc |-> sweep_pc, sw |-> sw, u |-> UserState, quit |-> quit,
              calls |-> timeout_calls]

\* ps_check_heartbeat calls ps_node_timeout for the first of todo, or the
\* loop body is over: the next asyncio.sleep(10).
CallTimeouts(S, todo) ==
    IF todo = << >>
    THEN [S EXCEPT !.pc = "sleep", !.sw = [NoSw EXCEPT !.ret = S.sw.ret]]
    ELSE [S EXCEPT !.pc = "nto_in", !.sw = [NoSw EXCEPT !.ret = S.sw.ret, !.todo = todo],
                   !.calls = CountCall(S.calls, Head(todo))]

\* The loop body that checks the heartbeats also when the job is done.
MainLoopStep_check_always(S) ==
    LET r == SwRun(S.pc, S.sw, S.u)
        R == [S EXCEPT !.pc = r.pc, !.sw = r.s, !.u = r.u]
    IN
    IF R.pc = "job_done_ret"
    THEN CallTimeouts([R EXCEPT !.quit = R.sw.ret], TimedOut(all_nodes))
    ELSE CallTimeouts(R, Tail(R.sw.todo))

\* One step of the loop body of ps_main_loop while self.quit is false: the
\* user callback it has entered, and its own code up to the next callback.
MainLoopStep(S) ==
    LET r == SwRun(S.pc, S.sw, S.u)
        R == [S EXCEPT !.pc = r.pc, !.sw = r.s, !.u = r.u]
    IN
    IF R.pc = "job_done_ret"
    THEN IF R.sw.ret
         THEN [R EXCEPT !.quit = TRUE, !.pc = "sleep", !.sw = [NoSw EXCEPT !.ret = TRUE]]
         ELSE CallTimeouts(R, TimedOut(all_nodes))
    ELSE CallTimeouts(R, Tail(R.sw.todo))

RECURSIVE MainLoopRun(_)
MainLoopRun(S) == IF S.pc = "sleep" THEN S ELSE MainLoopRun(MainLoopStep(S))

\* The loop body goes on: to the next sleep when no pool thread is in a
\* callback, by one callback otherwise.
Advance(S) ==
    LET r == IF ThreadInCallback THEN S ELSE MainLoopRun(S) IN
    /\ sweep_pc' = r.pc
    /\ sw' = r.sw
    /\ quit' = r.quit
    /\ timeout_calls' = r.calls
    /\ job_data' = r.u.job_data
    /\ active_nodes' = r.u.active_nodes
    /\ timeout_nodes' = r.u.timeout_nodes
    /\ UNCHANGED save_calls
    /\ sweep_timer' = IF r.pc = "sleep" THEN SweepPeriod ELSE sweep_timer

\* The countdown in steps of two.
Countdown_by_two(q) == q - 2

\* self.quit_counter = self.quit_counter - 1
Countdown(q) == q - 1

\* The counters below QuitFloor are kept as QuitFloor: the loop tests the
\* counter against 0 only, and a Python int has no least value.
QuitFloor == 0 - MaxQuitCounter

\* await asyncio.sleep(10) is over: the countdown when self.quit, the call of
\* ps_is_job_done otherwise.
SweepWake ==
    /\ sweep_pc = "sleep"
    /\ sweep_timer = 0
    /\ IF quit
       THEN /\ quit_counter' = Max(Countdown(quit_counter), QuitFloor)
            /\ IF quit_counter' = 0
               THEN sweep_pc' = "closing" /\ server_open' = FALSE /\ UNCHANGED sweep_timer
               ELSE sweep_timer' = SweepPeriod /\ UNCHANGED << sweep_pc, server_open >>
            /\ UNCHANGED << quit, sw, user_vars, timeout_calls >>
       ELSE /\ Advance([LoopState EXCEPT !.pc = "is_job_done", !.sw = [NoSw EXCEPT !.i = 1]])
            /\ UNCHANGED << quit_counter, server_open >>
    /\ UNCHANGED << all_nodes, conn_vars, thread_vars, node_vars >>
    /\ UNCHANGED pure_vars

\* The loop body between the call of ps_is_job_done and the next sleep.
SweepStep ==
    /\ ~LoopFree
    /\ Advance(MainLoopStep(LoopState))
    /\ UNCHANGED << all_nodes, quit_counter, server_open >>
    /\ UNCHANGED << conn_vars, thread_vars, node_vars >>
    /\ UNCHANGED pure_vars

\* server.close() is done, await server.wait_closed() is over: the loop returns.
SweepReturn ==
    /\ sweep_pc = "closing"
    /\ sweep_pc' = "returned"
    /\ UNCHANGED << all_nodes, quit, quit_counter, server_open, sweep_timer, sw >>
    /\ UNCHANGED << user_vars, conn_vars, thread_vars, node_vars, timeout_calls >>
    /\ UNCHANGED pure_vars

\* ps_save_data is called again and again.
SaveData_again ==
    /\ sweep_pc \in {"returned", "exit"}
    /\ \A c \in Conns : hpc[c] = "idle"
    /\ save_calls < 2
    /\ sweep_pc' = "exit"
    /\ save_calls' = save_calls + 1
    /\ UNCHANGED << all_nodes, quit, quit_counter, server_open, sweep_timer, sw >>
    /\ UNCHANGED << job_data, active_nodes, timeout_nodes >>
    /\ UNCHANGED << conn_vars, thread_vars, node_vars, timeout_calls >>
    /\ UNCHANGED pure_vars

\* ps_run after asyncio.run(self.ps_main_loop()) has returned, which it does
\* when no handler is left: self.ps_save_data(), and the process exits.
SaveData ==
    /\ sweep_pc = "returned"
    /\ \A c \in Conns : hpc[c] = "idle"
    /\ sweep_pc' = "exit"
    /\ save_calls' = save_calls + 1
    /\ UNCHANGED << all_nodes, quit, quit_counter, server_open, sweep_timer, sw >>
    /\ UNCHANGED << job_data, active_nodes, timeout_nodes >>
    /\ UNCHANGED << conn_vars, thread_vars, node_vars, timeout_calls >>
    /\ UNCHANGED pure_vars

\* ------------------------------------------------------ relative speed
\* The coordinator is the fast side.  No handler and no sweep tick is
\* mid-way: only then a worker moves or the clock advances (handlers and
\* ticks begun at the same instant interleave).
ServerIdle == LoopFree /\ \A c \in Conns : hpc[c] = "idle"

\* No reply waits to be read.
NoReplyWaits == \A c \in Conns : reply[c] = NoMsg \/ ~Waiting(c)

\* ---------------------------------------------------------------- PSNode
main(w) == << w, "main" >>
hb(w) == << w, "hb" >>

\* ps_send_msg_return_answer of a task on connection c: the connection is
\* made and request m written, or the connection is refused.
Send(c, m) ==
    /\ req' = [req EXCEPT ![c] = IF server_open THEN m ELSE NoMsg]
    /\ hpc' = [hpc EXCEPT ![c] = IF server_open THEN "read" ELSE @]
    /\ reply' = [reply EXCEPT ![c] = NoMsg]
    /\ older' = IF server_open THEN Issued(c) ELSE older

\* ps_send_msg_return_answer raises instead of returning a message: an
\* empty frame makes decode_message raise, and of the exceptions of the
\* connection only ConnectionRefusedError is caught.
Raises(msg) == msg.tag \in {"EOF", "Reset"}

\* A task that takes the refused connection for a request under way.
Sent_waits == "wait"

\* Where the task is after sending: it waits for the answer, or the answer
\* is the ConnectionError of asyncio.open_connection, which ends its loop.
Sent == IF server_open THEN "wait" ELSE "done"

\* The reply is read and the connection closed.
Disconnect(c) ==
    /\ req' = [req EXCEPT ![c] = NoMsg]
    /\ reply' = [reply EXCEPT ![c] = NoMsg]
    /\ UNCHANGED << hpc, older >>

\* The task of worker w that reads reply msg sees whether it is Quit.
SeeQuit(w, msg) == quit_seen' = [quit_seen EXCEPT ![w] = @ \/ msg.tag = "Quit"]

\* PSNode.ps_run / ps_start_tasks: both tasks are created; the main task
\* sends Init, the heartbeat task sleeps.
NodeStart(w) ==
    /\ ServerIdle
    /\ mpc[w] = "new"
    /\ alive' = [alive EXCEPT ![w] = TRUE]
    /\ Send(main(w), ps_gen_init_message(w))
    /\ mpc' = [mpc EXCEPT ![w] = Sent]
    /\ hpos' = [hpos EXCEPT ![w] = "sleep"]
    /\ hb_timer' = [hb_timer EXCEPT ![w] = heartbeat_timeout]
    /\ UNCHANGED << mode, new_data, new_result, init_data, sleep_timer, quit_seen >>
    /\ UNCHANGED << server_vars, user_vars, thread_vars, timeout_calls >>
    /\ UNCHANGED pure_vars

\* TestNode.ps_process_data
ps_process_data(data) == data + Increment

\* ps_main_loop: the match on the reply, and the request of the next turn
\* of the loop.  An exception of ps_send_msg_return_answer leaves the task:
\* the task group ends both tasks.
NodeReceive(w) ==
    LET msg == reply[main(w)] IN
    /\ ServerIdle
    /\ alive[w]
    /\ mpc[w] = "wait"
    /\ msg # NoMsg
    /\ CASE msg.tag = "InitOK" /\ mode[w] = "init" ->
              /\ init_data' = [init_data EXCEPT ![w] = msg.data]
              /\ mode' = [mode EXCEPT ![w] = "need_data"]
              /\ Send(main(w), ps_gen_need_more_data_message(w))
              /\ mpc' = [mpc EXCEPT ![w] = Sent]
              /\ UNCHANGED << new_data, sleep_timer, hpos, hb_timer >>
         [] msg.tag = "NewDataFromServer" /\ mode[w] = "need_data" /\ msg.data = None ->
              /\ Disconnect(main(w))
              /\ mpc' = [mpc EXCEPT ![w] = "sleep"]
              /\ sleep_timer' = [sleep_timer EXCEPT ![w] = NodeSleep]
              /\ UNCHANGED << mode, new_data, init_data, hpos, hb_timer >>
         [] msg.tag = "NewDataFromServer" /\ mode[w] = "need_data" /\ msg.data # None ->
              /\ Disconnect(main(w))
              /\ mpc' = [mpc EXCEPT ![w] = "compute"]
              /\ new_data' = [new_data EXCEPT ![w] = msg.data]
              /\ UNCHANGED << mode, init_data, sleep_timer, hpos, hb_timer >>
         [] msg.tag = "ResultOK" /\ mode[w] = "has_data" ->
              /\ mode' = [mode EXCEPT ![w] = "need_data"]
              /\ Send(main(w), ps_gen_need_more_data_message(w))
              /\ mpc' = [mpc EXCEPT ![w] = Sent]
              /\ UNCHANGED << new_data, init_data, sleep_timer, hpos, hb_timer >>
         [] Raises(msg) ->
              /\ Disconnect(main(w))
              /\ mpc' = [mpc EXCEPT ![w] = "done"]
              /\ hpos' = [hpos EXCEPT ![w] = "done"]
              /\ hb_timer' = [hb_timer EXCEPT ![w] = 0]
              /\ UNCHANGED << mode, new_data, init_data, sleep_timer >>
         [] OTHER ->
              /\ Disconnect(main(w))
              /\ mpc' = [mpc EXCEPT ![w] = "done"]
              /\ UNCHANGED << mode, new_data, init_data, sleep_timer, hpos, hb_timer >>
    /\ UNCHANGED << alive, new_result >>
    /\ SeeQuit(w, msg)
    /\ UNCHANGED << server_vars, user_vars, thread_vars, timeout_calls >>
    /\ UNCHANGED pure_vars

\* ps_process_data_thread has returned: mode = "has_data", the result is sent.
ProcessData(w) ==
    /\ ServerIdle
    /\ alive[w]
    /\ mpc[w] = "compute"
    /\ ps_process_data(new_data[w]) <= MaxResult
    /\ new_result' = [new_result EXCEPT ![w] = ps_process_data(new_data[w])]
    /\ new_data' = [new_data EXCEPT ![w] = None]
    /\ mode' = [mode EXCEPT ![w] = "has_data"]
    /\ Send(main(w), ps_gen_result_message(w, ps_process_data(new_data[w])))
    /\ mpc' = [mpc EXCEPT ![w] = Sent]
    /\ UNCHANGED << alive, init_data, sleep_timer, hpos, hb_timer, quit_seen >>
    /\ UNCHANGED << server_vars, user_vars, thread_vars, timeout_calls >>
    /\ UNCHANGED pure_vars

\* The main task goes on before its sleep is over.
NodeWake_early(w) ==
    /\ ServerIdle
    /\ alive[w]
    /\ mpc[w] = "sleep"
    /\ Send(main(w), ps_gen_need_more_data_message(w))
    /\ mpc' = [mpc EXCEPT ![w] = Sent]
    /\ UNCHANGED << alive, mode, new_data, new_result, init_data, sleep_timer, hpos, hb_timer, quit_seen >>
    /\ UNCHANGED << server_vars, user_vars, thread_vars, timeout_calls >>
    /\ UNCHANGED pure_vars

\* await asyncio.sleep(10.0) of the main task is over: mode = "need_data".
NodeWake(w) ==
    /\ ServerIdle
    /\ alive[w]
    /\ mpc[w] = "sleep"
    /\ sleep_timer[w] = 0
    /\ Send(main(w), ps_gen_need_more_data_message(w))
    /\ mpc' = [mpc EXCEPT ![w] = Sent]
    /\ UNCHANGED << alive, mode, new_data, new_result, init_data, sleep_timer, hpos, hb_timer, quit_seen >>
    /\ UNCHANGED << server_vars, user_vars, thread_vars, timeout_calls >>
    /\ UNCHANGED pure_vars

\* The heartbeat is sent before the sleep is over.
HeartbeatSend_early(w) ==
    /\ ServerIdle
    /\ alive[w]
    /\ hpos[w] = "sleep"
    /\ Send(hb(w), ps_gen_heartbeat_message(w))
    /\ hpos' = [hpos EXCEPT ![w] = Sent]
    /\ UNCHANGED << alive, mode, new_data, new_result, init_data, sleep_timer, mpc, hb_timer, quit_seen >>
    /\ UNCHANGED << server_vars, user_vars, thread_vars, timeout_calls >>
    /\ UNCHANGED pure_vars

\* ps_send_heartbeat: the sleep is over, the heartbeat is sent.
HeartbeatSend(w) ==
    /\ ServerIdle
    /\ alive[w]
    /\ hpos[w] = "sleep"
    /\ hb_timer[w] = 0
    /\ Send(hb(w), ps_gen_heartbeat_message(w))
    /\ hpos' = [hpos EXCEPT ![w] = Sent]
    /\ UNCHANGED << alive, mode, new_data, new_result, init_data, sleep_timer, mpc, hb_timer, quit_seen >>
    /\ UNCHANGED << server_vars, user_vars, thread_vars, timeout_calls >>
    /\ UNCHANGED pure_vars

\* ps_send_heartbeat: the match on the reply.
HeartbeatReceive(w) ==
    LET msg == reply[hb(w)] IN
    /\ ServerIdle
    /\ alive[w]
    /\ hpos[w] = "wait"
    /\ msg # NoMsg
    /\ Disconnect(hb(w))
    /\ CASE msg.tag = "HeartbeatOK" ->
              /\ hpos' = [hpos EXCEPT ![w] = "sleep"]
              /\ hb_timer' = [hb_timer EXCEPT ![w] = heartbeat_timeout]
              /\ UNCHANGED << mpc, sleep_timer >>
         [] Raises(msg) ->
              /\ hpos' = [hpos EXCEPT ![w] = "done"]
              /\ mpc' = [mpc EXCEPT ![w] = "done"]
              /\ sleep_timer' = [sleep_timer EXCEPT ![w] = 0]
              /\ UNCHANGED hb_timer
         [] OTHER ->
              /\ hpos' = [hpos EXCEPT ![w] = "done"]
              /\ UNCHANGED << mpc, sleep_timer, hb_timer >>
    /\ UNCHANGED << alive, mode, new_data, new_result, init_data >>
    /\ SeeQuit(w, msg)
    /\ UNCHANGED << server_vars, user_vars, thread_vars, timeout_calls >>
    /\ UNCHANGED pure_vars

\* A task of worker w is still running.
Running(w) == alive[w] /\ (mpc[w] # "done" \/ hpos[w] # "done")

\* The workers that may be killed.
Mortal(w) == w > NumNodes - MaxDead

\* The worker process is killed (node_task2.cancel() of test_heartbeat_error):
\* neither task takes another step, its connections are gone.  Workers
\* differ in their ids only: the ones killed are the last MaxDead.
Die(w) ==
    /\ ServerIdle
    /\ Mortal(w)
    /\ Running(w)
    /\ alive' = [alive EXCEPT ![w] = FALSE]
    /\ mpc' = [mpc EXCEPT ![w] = "dead"]
    /\ hpos' = [hpos EXCEPT ![w] = "dead"]
    /\ mode' = [mode EXCEPT ![w] = "init"]
    /\ new_data' = [new_data EXCEPT ![w] = None]
    /\ new_result' = [new_result EXCEPT ![w] = None]
    /\ init_data' = [init_data EXCEPT ![w] = 0]
    /\ sleep_timer' = [sleep_timer EXCEPT ![w] = 0]
    /\ hb_timer' = [hb_timer EXCEPT ![w] = 0]
    /\ reply' = [c \in Conns |-> IF c[1] = w THEN NoMsg ELSE reply[c]]
    /\ req' = [c \in Conns |-> IF c[1] = w /\ hpc[c] = "idle" THEN NoMsg ELSE req[c]]
    /\ UNCHANGED << hpc, older, quit_seen >>
    /\ UNCHANGED << server_vars, user_vars, thread_vars, timeout_calls >>
    /\ UNCHANGED pure_vars

\* ------------------------------------------------------------------ time
Down(t) == Max(0, t - TimeStep)

\* No asyncio.sleep that is over waits for its task to run.
NoSleepIsOver ==
    /\ ~(sweep_pc = "sleep" /\ sweep_timer = 0)
    /\ \A w \in Nodes : alive[w] =>
          /\ ~(mpc[w] = "sleep" /\ sleep_timer[w] = 0)
          /\ ~(hpos[w] = "sleep" /\ hb_timer[w] = 0)

\* The workers that are killed live less than one clock step.
MortalsGone == \A w \in Nodes : Mortal(w) => ~Running(w)

\* TimeStep seconds pass.  A handler, a sweep tick and the reading of a
\* reply last less than that: none is mid-way when the clock advances.
Tick ==
    /\ NoSleepIsOver
    /\ ServerIdle
    /\ NoReplyWaits
    /\ MortalsGone
    /\ sweep_timer' = IF sweep_pc = "sleep" THEN Down(sweep_timer) ELSE sweep_timer
    /\ sleep_timer' = [w \in Nodes |-> Down(sleep_timer[w])]
    /\ hb_timer' = [w \in Nodes |-> Down(hb_timer[w])]
    /\ all_nodes' = [i \in 1..Len(all_nodes) |->
                        [all_nodes[i] EXCEPT !.age = Min(@ + TimeStep, AgeCap)]]
    /\ UNCHANGED << quit, quit_counter, server_open, sweep_pc, sw >>
    /\ UNCHANGED << alive, mode, mpc, new_data, new_result, init_data, hpos, quit_seen >>
    /\ UNCHANGED << user_vars, conn_vars, thread_vars, timeout_calls >>
    /\ UNCHANGED pure_vars

\* ------------------------------------------ requests from outside PSNode
\* Any frame a client holding the key can send in the name of node id n, in
\* any order: on one connection a request of the main task or a reply tag
\* sent as a request, on the other a heartbeat or bytes that are no frame
\* of encode_message.
Results == {max_value}
Requests(c) ==
    IF c[2] = "main"
    THEN {ps_gen_init_message(c[1]), ps_gen_need_more_data_message(c[1]),
          ps_gen_result_ok_message}
         \cup {ps_gen_result_message(c[1], r) : r \in Results}
    ELSE {ps_gen_heartbeat_message(c[1]), Garbage}

Free(c) == hpc[c] = "idle" /\ req[c] = NoMsg /\ reply[c] = NoMsg

\* A client connects and sends m.
Inject(c, m) ==
    /\ server_open
    /\ NoReplyWaits
    /\ Free(c)
    /\ Cardinality({x \in Conns : ~Free(x)}) < MaxOpen
    /\ req' = [req EXCEPT ![c] = m]
    /\ hpc' = [hpc EXCEPT ![c] = "read"]
    /\ older' = Issued(c)
    /\ UNCHANGED reply
    /\ UNCHANGED << server_vars, user_vars, thread_vars, node_vars, timeout_calls >>
    /\ UNCHANGED pure_vars

\* The client reads the reply and closes the connection.
Drain(c) ==
    /\ reply[c] # NoMsg
    /\ Disconnect(c)
    /\ UNCHANGED << server_vars, user_vars, thread_vars, node_vars, timeout_calls >>
    /\ UNCHANGED pure_vars

\* The client reads the reply, notes whether it is Quit, and closes the
\* connection.
DrainNoting(c) ==
    /\ reply[c] # NoMsg
    /\ Disconnect(c)
    /\ SeeQuit(c[1], reply[c])
    /\ UNCHANGED << server_vars, user_vars, thread_vars, task_vars, timeout_calls >>
    /\ UNCHANGED pure_vars

\* ------------------------------------------------------------ ps_message
\* A Python value: None, an int, a bool, a str, a member of PSMessageType,
\* a PSNodeId, a tuple or a list.
Value(t, n, s, items) == [t |-> t, n |-> n, s |-> s, items |-> items]
PyNone == Value("none", 0, "", << >>)
PyInt(i) == Value("int", i, "", << >>)
PyBool(b) == Value("bool", IF b THEN 1 ELSE 0, "", << >>)
PyStr(s) == Value("str", 0, s, << >>)
PyTuple(items) == Value("tuple", 0, "", items)
PyList(items) == Value("list", 0, "", items)
PSMessageType(name) == Value("enum", 0, name, << >>)
PSNodeId(n) == Value("nodeid", n, "", << >>)

\* The values that are written with one opcode.
Scalars == {"none", "int", "bool", "str", "enum", "nodeid"}

\* One element of a byte string: an opcode of pickle with its argument,
\* and the count lzma stores with it.
Byte(op, n, s, rep) == [op |-> op, n |-> n, s |-> s, rep |-> rep]
Op(op) == Byte(op, 0, "", 0)

\* An exception of class kind raised by a step of decode_message, and the
\* results of the steps.
Raised(kind) == Value("raise", 0, kind, << >>)
Fail(kind) == [ok |-> FALSE, data |-> << >>, err |-> kind]
Ok(data) == [ok |-> TRUE, data |-> data, err |-> ""]

\* pickle.dumps: the opcodes that rebuild the value on the stack of the
\* unpickler, then STOP.
RECURSIVE Save(_)
RECURSIVE SaveAll(_)
Save(v) ==
    IF v.t = "tuple"
    THEN << Op("MARK") >> \o SaveAll(v.items) \o << Op("TUPLE") >>
    ELSE IF v.t = "list"
    THEN << Op("EMPTY_LIST"), Op("MARK") >> \o SaveAll(v.items) \o << Op("APPENDS") >>
    ELSE << Byte(v.t, v.n, v.s, 0) >>

SaveAll(items) ==
    IF items = << >> THEN << >> ELSE Save(Head(items)) \o SaveAll(Tail(items))

pickle_dumps(v) == Save(v) \o << Op("STOP") >>

\* The mark object of the unpickler, and the place of the topmost one.
Mark == Value("mark", 0, "", << >>)
LastMark(st) ==
    LET M == {i \in 1..Len(st) : st[i].t = "mark"} IN
    IF M = {} THEN 0 ELSE CHOOSE i \in M : \A j \in M : j <= i

\* pickle.loads: the opcodes are run on a stack; STOP returns its top.
RECURSIVE Load(_, _)
Load(ops, st) ==
    IF ops = << >> THEN Raised("UnpicklingError")
    ELSE
      LET o == Head(ops)
          rest == Tail(ops)
          m == LastMark(st)
      IN
      IF o.rep # 0 THEN Raised("UnpicklingError")
      ELSE IF o.op = "STOP" THEN (IF st = << >> THEN Raised("UnpicklingError") ELSE st[Len(st)])
      ELSE IF o.op = "MARK" THEN Load(rest, Append(st, Mark))
      ELSE IF o.op = "TUPLE"
      THEN IF m = 0 THEN Raised("UnpicklingError")
           ELSE Load(rest, Append(SubSeq(st, 1, m - 1), PyTuple(SubSeq(st, m + 1, Len(st)))))
      ELSE IF o.op = "EMPTY_LIST" THEN Load(rest, Append(st, PyList(<< >>)))
      ELSE IF o.op = "APPENDS"
      THEN IF m < 2 THEN Raised("UnpicklingError")
           ELSE IF st[m - 1].t # "list" THEN Raised("UnpicklingError")
           ELSE Load(rest, Append(SubSeq(st, 1, m - 2),
                                  PyList(st[m - 1].items \o SubSeq(st, m + 1, Len(st)))))
      ELSE IF o.op \in Scalars THEN Load(rest, Append(st, Value(o.op, o.n, o.s, << >>)))
      ELSE Raised("UnpicklingError")

pickle_loads(data) == Load(data, << >>)

\* lzma.compress: the magic bytes of the container, then the data with
\* every run of equal bytes stored once with its length.
Magic == Byte("XZ", 0, "", 1)

RECURSIVE Pack(_)
Pack(data) ==
    IF data = << >> THEN << >>
    ELSE
      LET r == Pack(Tail(data))
          h == [Head(data) EXCEPT !.rep = 0]
      IN
      IF r # << >> /\ [Head(r) EXCEPT !.rep = 0] = h
      THEN << [Head(r) EXCEPT !.rep = @ + 1] >> \o Tail(r)
      ELSE << [h EXCEPT !.rep = 1] >> \o r

lzma_compress(data) == << Magic >> \o Pack(data)

\* lzma.decompress: LZMAError for data that is no container.
RECURSIVE Unpack(_)
Unpack(runs) ==
    IF runs = << >> THEN << >>
    ELSE [i \in 1..Head(runs).rep |-> [Head(runs) EXCEPT !.rep = 0]] \o Unpack(Tail(runs))

lzma_decompress(data) ==
    IF data = << >> THEN Fail("LZMAError")
    ELSE IF Head(data) # Magic THEN Fail("LZMAError")
    ELSE IF \E i \in 2..Len(data) : data[i].rep < 1 THEN Fail("LZMAError")
    ELSE Ok(Unpack(Tail(data)))

\* Fernet(secret_key): the data enciphered with the key and the random iv
\* of the token, under a header with the iv and the keyed digest of the
\* ciphertext.
Rot(data, k) ==
    IF data = << >> THEN data
    ELSE [i \in 1..Len(data) |-> data[((i - 1 + k) % Len(data)) + 1]]

Cipher(k, iv, data) == Rot([i \in 1..Len(data) |-> [data[i] EXCEPT !.n = @ + k]], k + iv)

Decipher(k, iv, body) ==
    IF body = << >> THEN body
    ELSE LET back == Rot(body, Len(body) - ((k + iv) % Len(body))) IN
         [i \in 1..Len(back) |-> [back[i] EXCEPT !.n = @ - k]]

RECURSIVE Digest(_)
Digest(body) ==
    IF body = << >> THEN 0
    ELSE (Head(body).n + Head(body).rep + 2 * Digest(Tail(body))) % 251

Hmac(k, body) == (31 * k + Digest(body)) % 251

fernet_encrypt(k, iv, data) ==
    LET body == Cipher(k, iv, data) IN << Byte("fernet", Hmac(k, body), "", iv) >> \o body

\* Fernet.decrypt: InvalidToken for a token of another key, or for bytes
\* that are no token.
fernet_decrypt(k, token) ==
    IF token = << >> THEN Fail("InvalidToken")
    ELSE IF Head(token).op # "fernet" THEN Fail("InvalidToken")
    ELSE IF Head(token).n # Hmac(k, Tail(token)) THEN Fail("InvalidToken")
    ELSE Ok(Decipher(k, Head(token).rep, Tail(token)))

\* encode_message: pickle.dumps, lzma.compress, Fernet.encrypt (which draws
\* the iv).
encode_message(message, secret_key, iv) ==
    LET msg_ser == pickle_dumps(message)
        msg_cmp == lzma_compress(msg_ser)
    IN fernet_encrypt(secret_key, iv, msg_cmp)

\* decode_message with decompression before decryption.
decode_message_unordered(message, secret_key) ==
    LET msg_enc == lzma_decompress(message) IN
    IF ~msg_enc.ok THEN Raised(msg_enc.err)
    ELSE LET msg_ser == fernet_decrypt(secret_key, msg_enc.data) IN
         IF ~msg_ser.ok THEN Raised(msg_ser.err) ELSE pickle_loads(msg_ser.data)

\* decode_message: Fernet.decrypt, lzma.decompress, pickle.loads; there is
\* no try: the exception of any of them leaves decode_message as it is.
decode_message(message, secret_key) ==
    LET msg_cmp == fernet_decrypt(secret_key, message) IN
    IF ~msg_cmp.ok THEN Raised(msg_cmp.err)
    ELSE LET msg_ser == lzma_decompress(msg_cmp.data) IN
         IF ~msg_ser.ok THEN Raised(msg_ser.err) ELSE pickle_loads(msg_ser.data)

\* The keys and the ivs of Fernet.
Keys == 1..NumKeys
IVs == 0..(NumIVs - 1)

\* The payloads: the data of TestServer and of test_message.py (33 for 33.5).
Payloads ==
    { PyNone, PyInt(InitData),
      PyList(<< PyInt(34), PyBool(TRUE), PyStr("s") >>),
      PyList(<< PyInt(33), PyBool(FALSE), PyStr("s") >>),
      PyTuple(<< PyInt(1), PyInt(1), PyTuple(<< PyTuple(<< >>), PyList(<< >>) >>) >>) }

\* What the ps_gen_* functions pass to encode_message, and the values of
\* test_encode_decode1 and test_encode_decode2.
Messages ==
    {PyTuple(<< PSMessageType(t), PSNodeId(n) >>) :
        t \in {"Heartbeat", "Init", "NodeNeedsMoreData"}, n \in Nodes}
    \cup {PyTuple(<< PSMessageType("NewResultFromNode"), PSNodeId(n), d >>) :
             n \in Nodes, d \in Payloads}
    \cup {PyTuple(<< PSMessageType(t), d >>) :
             t \in {"InitOK", "NewDataFromServer"}, d \in Payloads}
    \cup {PSMessageType(t) :
             t \in {"HeartbeatOK", "HeartbeatError", "InitError", "ResultOK", "Quit"}}
    \cup {PyStr("This is test 1"),
          PyTuple(<< PyStr("This is test 2"),
                     PyList(<< PyInt(33), PyBool(TRUE), PyInt(0 - 789) >>) >>)}

\* No value is being encoded.
NoCodec == [pc |-> "off", value |-> PyNone, key |-> 0, wire |-> << >>,
            dkey |-> 0, out |-> PyNone, errors |-> {}]

\* msg2 = psm.encode_message(msg1, key)
Encode(iv) ==
    /\ codec.pc = "input"
    /\ codec' = [codec EXCEPT !.pc = "encoded",
                              !.wire = encode_message(codec.value, codec.key, iv)]
    /\ UNCHANGED << server_vars, user_vars, thread_vars, conn_vars, node_vars, timeout_calls >>
    /\ UNCHANGED << conf, hbc >>

\* A frame of a sender that holds the key and leaves a step of
\* encode_message undone: the pickle is not compressed ("lzma"), or the
\* pickle is cut before its STOP ("pickle").
Forged(message, secret_key, iv, undone) ==
    IF undone = "lzma"
    THEN fernet_encrypt(secret_key, iv, pickle_dumps(message))
    ELSE fernet_encrypt(secret_key, iv, lzma_compress(Save(message)))

Forge(iv, undone) ==
    /\ codec.pc = "input"
    /\ codec' = [codec EXCEPT !.pc = "encoded",
                              !.wire = Forged(codec.value, codec.key, iv, undone)]
    /\ UNCHANGED << server_vars, user_vars, thread_vars, conn_vars, node_vars, timeout_calls >>
    /\ UNCHANGED << conf, hbc >>

\* The classes of the exceptions a caller of decode_message has seen.
Seen(errors, out) == IF out.t = "raise" THEN errors \cup {out.s} ELSE errors

\* msg3 = psm.decode_message(msg2, key)
Decode(k) ==
    /\ codec.pc = "encoded"
    /\ codec' = [codec EXCEPT !.pc = "decoded", !.dkey = k,
                              !.out = decode_message(codec.wire, k),
                              !.errors = Seen(@, decode_message(codec.wire, k))]
    /\ UNCHANGED << server_vars, user_vars, thread_vars, conn_vars, node_vars, timeout_calls >>
    /\ UNCHANGED << conf, hbc >>

\* The next message v under key k.
NextMessage(v, k) ==
    /\ codec.pc = "decoded"
    /\ codec' = [NoCodec EXCEPT !.pc = "input", !.value = v, !.key = k,
                                !.errors = codec.errors]
    /\ UNCHANGED << server_vars, user_vars, thread_vars, conn_vars, node_vars, timeout_calls >>
    /\ UNCHANGED << conf, hbc >>

\* -------------------------------------------------------------- ps_config
\* str.encode(): the UTF-8 bytes of the code points of a string.
RECURSIVE Utf8(_)
Utf8(str) ==
    IF str = << >> THEN << >>
    ELSE IF Head(str) < 128 THEN << Head(str) >> \o Utf8(Tail(str))
    ELSE << 192 + (Head(str) \div 64), 128 + (Head(str) % 64) >> \o Utf8(Tail(str))

\* base64.urlsafe_b64encode: four digits of six bits for three bytes, Pad
\* for the digits a last group of one or two bytes leaves open.
Pad == 64
RECURSIVE urlsafe_b64encode(_)
urlsafe_b64encode(b) ==
    IF b = << >> THEN << >>
    ELSE IF Len(b) = 1
    THEN << b[1] \div 4, (b[1] % 4) * 16, Pad, Pad >>
    ELSE IF Len(b) = 2
    THEN << b[1] \div 4, (b[1] % 4) * 16 + (b[2] \div 16), (b[2] % 16) * 4, Pad >>
    ELSE << b[1] \div 4, (b[1] % 4) * 16 + (b[2] \div 16),
            (b[2] % 16) * 4 + (b[3] \div 64), b[3] % 64 >>
         \o urlsafe_b64encode(SubSeq(b, 4, Len(b)))

\* A configuration object, and the exception that ends the loading.
Config(address, port, timeout, key, counter) ==
    [ok |-> TRUE, server_address |-> address, server_port |-> port,
     heartbeat_timeout |-> timeout, secret_key |-> key, quit_counter |-> counter]
ConfigError == [Config("", 0, 0, << >>, 0) EXCEPT !.ok = FALSE]

\* Every heartbeat timeout above zero passes.
TimeoutValid_positive(t) == t > 0

\* assert config.heartbeat_timeout > 9
TimeoutValid(t) == t > 9

\* assert config.quit_counter > 0
CounterValid(q) == q > 0

\* PSConfiguration.__init__: the defaults, the assertion on the key, the
\* key in its encoded form.
PSConfiguration(secret_key) ==
    IF Len(secret_key) = 32
    THEN Config("127.0.0.1", 3100, 60 * 5, urlsafe_b64encode(Utf8(secret_key)), 10)
    ELSE ConfigError

\* PSConfiguration.from_json for the object data of the file, whose keys
\* are data.present: data["secret_key"] raises KeyError when absent, then
\* each key that is present replaces a default.
from_json(data) ==
    IF "secret_key" \notin data.present THEN ConfigError
    ELSE
      LET c0 == PSConfiguration(data.secret_key)
          c1 == IF "server_address" \in data.present
                THEN [c0 EXCEPT !.server_address = data.server_address] ELSE c0
          c2 == IF "server_port" \in data.present
                THEN [c1 EXCEPT !.server_port = data.server_port] ELSE c1
          c3 == IF "heartbeat_timeout" \in data.present
                THEN [c2 EXCEPT !.heartbeat_timeout = data.heartbeat_timeout] ELSE c2
          c4 == IF "quit_counter" \in data.present
                THEN [c3 EXCEPT !.quit_counter = data.quit_counter] ELSE c3
      IN
      IF ~c0.ok THEN ConfigError
      ELSE IF "heartbeat_timeout" \in data.present /\ ~TimeoutValid(c3.heartbeat_timeout)
      THEN ConfigError
      ELSE IF "quit_counter" \in data.present /\ ~CounterValid(c4.quit_counter)
      THEN ConfigError
      ELSE c4

\* The files that are loaded: keys of the lengths around 32, of ASCII
\* letters or not, and the values around the limits, each key of the
\* object present or absent.
KeyLens == {0} \cup (31..MaxKeyLen)
Str(len, char) == [i \in 1..len |-> char]
Files ==
    {[present |-> P, secret_key |-> Str(l, ch), server_address |-> "33.44.55.66",
      server_port |-> 9999, heartbeat_timeout |-> t, quit_counter |-> q] :
        P \in SUBSET {"secret_key", "server_address", "server_port",
                      "heartbeat_timeout", "quit_counter"},
        l \in KeyLens, ch \in {97, 233}, t \in {1, 9, 10, 123}, q \in {0 - 1, 0, 1, 3}}

\* No file is being loaded.
NoConf == [pc |-> "off", data |-> [present |-> {}, secret_key |-> << >>,
                                   server_address |-> "", server_port |-> 0,
                                   heartbeat_timeout |-> 0, quit_counter |-> 0],
           cfg |-> ConfigError]

\* cfg = PSConfiguration.from_json(config_file_name)
LoadConfig ==
    /\ conf.pc = "file"
    /\ conf' = [conf EXCEPT !.pc = "loaded", !.cfg = from_json(conf.data)]
    /\ UNCHANGED << server_vars, user_vars, thread_vars, conn_vars, node_vars, timeout_calls >>
    /\ UNCHANGED << codec, hbc >>

\* ------------------------------------------------------ specifications
\* PSServer.__init__ / TestServer.__init__, and the listener started.
InitServer(counters) ==
    /\ all_nodes = << >>
    /\ quit = FALSE
    /\ quit_counter \in counters
    /\ lock = NoConn
    /\ server_open = TRUE
    /\ sweep_pc = "sleep"
    /\ sweep_timer = SweepPeriod
    /\ sw = NoSw
    /\ job_data = [i \in Units |-> WorkData]
    /\ active_nodes = << >>
    /\ timeout_nodes = << >>
    /\ req = [c \in Conns |-> NoMsg]
    /\ hpc = [c \in Conns |-> "idle"]
    /\ thr = [c \in Conns |-> "none"]
    /\ cb = NoCb
    /\ ret = [c \in Conns |-> None]
    /\ reply = [c \in Conns |-> NoMsg]
    /\ timeout_calls = [n \in Nodes |-> 0]
    /\ older = [n \in Nodes |-> "none"]
    /\ save_calls = 0

\* PSNode.__init__ / TestNode.__init__: the processes are not started yet.
InitNodes(pc) ==
    /\ alive = [w \in Nodes |-> FALSE]
    /\ mode = [w \in Nodes |-> "init"]
    /\ mpc = [w \in Nodes |-> pc]
    /\ new_data = [w \in Nodes |-> None]
    /\ new_result = [w \in Nodes |-> None]
    /\ init_data = [w \in Nodes |-> 0]
    /\ sleep_timer = [w \in Nodes |-> 0]
    /\ hpos = [w \in Nodes |-> pc]
    /\ hb_timer = [w \in Nodes |-> 0]
    /\ quit_seen = [w \in Nodes |-> FALSE]

ServerNext ==
    \/ \E c \in Conns : HandleRequest(c)
    \/ \E c \in Conns : ThreadStart(c)
    \/ \E c \in Conns : ThreadStep(c)
    \/ \E c \in Conns : HandleResume(c)
    \/ SweepWake
    \/ SweepStep
    \/ SweepReturn
    \/ SaveData

NodeNext ==
    \/ \E w \in Nodes : NodeStart(w)
    \/ \E w \in Nodes : NodeReceive(w)
    \/ \E w \in Nodes : ProcessData(w)
    \/ \E w \in Nodes : NodeWake(w)
    \/ \E w \in Nodes : HeartbeatSend(w)
    \/ \E w \in Nodes : HeartbeatReceive(w)
    \/ \E w \in Nodes : Die(w)

\* The coordinator with the workers of PSNode / TestNode.
Init == InitServer({MaxQuitCounter}) /\ InitNodes("new") /\ codec = NoCodec /\ conf = NoConf /\ hbc = NoCheck
Next == ServerNext \/ NodeNext \/ Tick
Spec == Init /\ [][Next]_vars

\* The scheduling the code relies on: the event loop runs a handler or a
\* sweep tick that is ready, the pool runs a submitted callback, the clock
\* advances, and a task of a worker process that is ready again and again
\* takes its step (a computation ends).  A worker that is to be killed is
\* killed within the clock step, or the clock would stop for it.
MainTask(w) == NodeStart(w) \/ NodeReceive(w) \/ ProcessData(w) \/ NodeWake(w)
HeartbeatTask(w) == HeartbeatSend(w) \/ HeartbeatReceive(w)

\* ThreadStep, SweepWake and SweepStep are enabled exactly where their
\* first conjuncts hold (what follows them defines the next state for any
\* current one): their weak fairness is written with that condition.
Fairness ==
    /\ \A c \in Conns : WF_vars(HandleRequest(c))
    /\ \A c \in Conns : WF_vars(ThreadStart(c))
    /\ \A c \in Conns : WF_vars(HandleResume(c))
    /\ \A c \in Conns : []<>(thr[c] # "running") \/ []<><<ThreadStep(c)>>_vars
    /\ []<>(~(sweep_pc = "sleep" /\ sweep_timer = 0)) \/ []<><<SweepWake>>_vars
    /\ []<>LoopFree \/ []<><<SweepStep>>_vars
    /\ WF_vars(SweepReturn)
    /\ WF_vars(SaveData)
    /\ WF_vars(Tick)
    /\ \A w \in Nodes : SF_vars(MainTask(w))
    /\ \A w \in Nodes : SF_vars(HeartbeatTask(w))
    /\ \A w \in Nodes : WF_vars(Die(w))
FairSpec == Init /\ [][Next]_vars /\ Fairness

\* The coordinator of a PSConfiguration whose quit_counter was assigned
\* after the construction, as gen_config of the tests does: any integer,
\* from_json alone asserts that it is greater than 0.
QuitCounters == {0 - 1, 0, 1, MaxQuitCounter}
InitAssigned == InitServer(QuitCounters) /\ InitNodes("new") /\ codec = NoCodec /\ conf = NoConf /\ hbc = NoCheck
FairSpecAssigned == InitAssigned /\ [][Next]_vars /\ Fairness

\* reads it: the id is not known to the coordinator that answers (it was
\* started again), or the frame is not the one that was written.
Tamper(w) ==
    /\ alive[w]
    /\ mpc[w] = "wait"
    /\ reply[main(w)] = ps_gen_result_ok_message
    /\ reply' = [reply EXCEPT ![main(w)] = ps_gen_init_message_error]
    /\ UNCHANGED << req, hpc, older >>
    /\ UNCHANGED << server_vars, user_vars, thread_vars, node_vars, timeout_calls >>
    /\ UNCHANGED pure_vars

\* The coordinator and the workers, where the main task of a worker may
\* read InitError, under the same scheduling as FairSpec.
NextFlaky ==
    \/ ServerNext
    \/ NodeNext
    \/ Tick
    \/ \E w \in Nodes : Tamper(w)
FairSpecFlaky == Init /\ [][NextFlaky]_vars /\ Fairness

\* The coordinator alone, with any sequence of requests at any speed.
InitOpen == InitServer({MaxQuitCounter}) /\ InitNodes("off") /\ codec = NoCodec /\ conf = NoConf /\ hbc = NoCheck
NextOpen ==
    \/ ServerNext
    \/ Tick
    \/ \E c \in Conns : \E m \in Requests(c) : Inject(c, m)
    \/ \E c \in Conns : Drain(c)
SpecServer == InitOpen /\ [][NextOpen]_vars

\* The same, with clients that note the Quit replies they read.
NextNoting ==
    \/ ServerNext
    \/ Tick
    \/ \E c \in Conns : \E m \in Requests(c) : Inject(c, m)
    \/ \E c \in Conns : DrainNoting(c)
SpecNoting == InitOpen /\ [][NextNoting]_vars

\* The coordinator and the workers, with callbacks of the user that may
\* raise.
NextFaulty ==
    \/ ServerNext
    \/ NodeNext
    \/ Tick
    \/ \E c \in Conns : ThreadRaise(c)
SpecFaulty == Init /\ [][NextFaulty]_vars

\* The handlers and their pool threads alone, with any sequence of
\* requests and callbacks of the user that may raise. threading.Lock hands
\* the lock to a thread that finds it free again and again (strong
\* fairness of ThreadStart); the event loop and the pool run what is ready.
NextLock ==
    \/ \E c \in Conns : HandleRequest(c)
    \/ \E c \in Conns : ThreadStart(c)
    \/ \E c \in Conns : ThreadStep(c)
    \/ \E c \in Conns : ThreadRaise(c)
    \/ \E c \in Conns : HandleResume(c)
    \/ \E c \in Conns : \E m \in Requests(c) : Inject(c, m)
    \/ \E c \in Conns : Drain(c)
FairnessLock ==
    /\ \A c \in Conns : WF_vars(HandleRequest(c))
    /\ \A c \in Conns : SF_vars(ThreadStart(c))
    /\ \A c \in Conns : WF_vars(HandleResume(c))
    /\ \A c \in Conns : []<>(thr[c] # "running") \/ []<><<ThreadStep(c) \/ ThreadRaise(c)>>_vars
FairSpecLock == InitOpen /\ [][NextLock]_vars /\ FairnessLock

\* The workers alone, with a peer at the address of the coordinator that
\* is no PSServer: it listens or not, answers a request with any message,
\* with no frame, or the exchange fails.
PeerReplies(c) ==
    IF c[2] = "main"
    THEN {ps_gen_init_message_ok(InitData), ps_gen_init_message_error,
          ps_gen_new_data_message(None), ps_gen_new_data_message(0),
          ps_gen_result_ok_message, ps_gen_quit_message,
          ps_gen_heartbeat_message_ok, EOF, Reset}
    ELSE {ps_gen_heartbeat_message_ok, ps_gen_heartbeat_message_error,
          ps_gen_quit_message, ps_gen_result_ok_message, EOF, Reset}

\* The peer answers the request on connection c with m.
Answer(c, m) ==
    /\ hpc[c] = "read"
    /\ WriteMsg(c, m)
    /\ UNCHANGED << server_vars, user_vars, thread_vars, node_vars, timeout_calls >>
    /\ UNCHANGED pure_vars

\* The peer starts or stops to listen.
Listen(open) ==
    /\ server_open # open
    /\ \A c \in Conns : hpc[c] = "idle"
    /\ server_open' = open
    /\ UNCHANGED << all_nodes, quit, quit_counter, sweep_pc, sweep_timer, sw >>
    /\ UNCHANGED << user_vars, thread_vars, conn_vars, node_vars, timeout_calls >>
    /\ UNCHANGED pure_vars

InitPeer ==
    /\ all_nodes = << >>
    /\ quit = FALSE
    /\ quit_counter = MaxQuitCounter
    /\ lock = NoConn
    /\ server_open = TRUE
    /\ sweep_pc = "exit"
    /\ sweep_timer = 0
    /\ sw = NoSw
    /\ job_data = [i \in Units |-> WorkData]
    /\ active_nodes = << >>
    /\ timeout_nodes = << >>
    /\ req = [c \in Conns |-> NoMsg]
    /\ hpc = [c \in Conns |-> "idle"]
    /\ thr = [c \in Conns |-> "none"]
    /\ cb = NoCb
    /\ ret = [c \in Conns |-> None]
    /\ reply = [c \in Conns |-> NoMsg]
    /\ timeout_calls = [n \in Nodes |-> 0]
    /\ older = [n \in Nodes |-> "none"]
    /\ save_calls = 0
InitNode == InitPeer /\ InitNodes("new") /\ codec = NoCodec /\ conf = NoConf /\ hbc = NoCheck
NextNode ==
    \/ NodeNext
    \/ Tick
    \/ \E c \in Conns : \E m \in PeerReplies(c) : Answer(c, m)
    \/ \E open \in BOOLEAN : Listen(open)
SpecNode == InitNode /\ [][NextNode]_vars

\* The codec alone: any message under any key, encoded or forged, and the
\* frame decoded under any key, one message after the other.
InitCodec ==
    /\ InitServer({MaxQuitCounter})
    /\ InitNodes("off")
    /\ codec \in {[NoCodec EXCEPT !.pc = "input", !.value = v, !.key = k] :
                     v \in Messages, k \in Keys}
    /\ conf = NoConf
    /\ hbc = NoCheck
NextCodec ==
    \/ \E iv \in IVs : Encode(iv)
    \/ \E iv \in IVs : \E undone \in {"lzma", "pickle"} : Forge(iv, undone)
    \/ \E k \in Keys : Decode(k)
    \/ \E v \in Messages : \E k \in Keys : NextMessage(v, k)
SpecCodec == InitCodec /\ [][NextCodec]_vars

\* The loading of a configuration alone.
InitConfig ==
    /\ InitServer({MaxQuitCounter})
    /\ InitNodes("off")
    /\ codec = NoCodec
    /\ conf \in {[NoConf EXCEPT !.pc = "file", !.data = d] : d \in Files}
    /\ hbc = NoCheck
NextConfig == LoadConfig
SpecConfig == InitConfig /\ [][NextConfig]_vars

\* The check of the heartbeats alone, with times that are no whole seconds.
InitSweep ==
    /\ InitServer({MaxQuitCounter})
    /\ InitNodes("off")
    /\ codec = NoCodec
    /\ conf = NoConf
    /\ hbc \in {[NoCheck EXCEPT !.pc = "ready", !.all_nodes = d, !.now = now] :
                   now \in Nows, d \in Dicts(NumNodes, MaxSilence * Tenths)}
NextSweep == CheckHeartbeat
SpecSweep == InitSweep /\ [][NextSweep]_vars

\* ------------------------------------------------------------- claims
\* The reply written in a step, if any.
Writes(c) == reply'[c] # reply[c] /\ reply'[c] # NoMsg
\* The handler of c reads its request and self.quit in this step.
Reads(c) == hpc[c] = "read" /\ hpc'[c] # "read"
\* A loop body of ps_main_loop ends in this step: the next sleep begins.
TickEnds == sweep_timer = 0 /\ sweep_timer' = SweepPeriod
\* ps_is_job_done on the state as it is.
\* The task at the other end of connection c reads a reply of this tag.
Receives(c, tag) == reply[c].tag = tag /\ reply'[c] = NoMsg /\ alive' = alive
JobDone == \A i \in Units : job_data[i].value >= max_value
Registered(n) == InDict(all_nodes, n)
Age(n) == DictGet(all_nodes, n)

\* C1 as stated: once quit is true, no NewDataFromServer reply is written,
\* by no handler, those in flight included.
C1_NoNewDataAfterQuit ==
    [][quit => \A c \in Conns : Writes(c) => reply'[c].tag # "NewDataFromServer"]_vars

\* C11: a Quit reply is written only while quit is true; a handler that
\* decodes its request while quit is true answers Quit whatever the tag and
\* the node id are, leaves all_nodes as it is and hands nothing to a pool
\* thread.
C11_QuitReply ==
    [][\A c \in Conns :
          /\ Writes(c) /\ reply'[c] = ps_gen_quit_message => quit
          /\ Reads(c) /\ Decodes(req[c]) /\ quit =>
                /\ reply'[c] = ps_gen_quit_message
                /\ all_nodes' = all_nodes
                /\ thr' = thr /\ cb' = cb /\ lock' = lock]_vars

C11_Witness ==
    /\ quit
    /\ \E c \in Conns : req[c].tag = "NodeNeedsMoreData" /\ reply[c] = ps_gen_quit_message
    /\ \E c \in Conns : req[c].tag = "Init" /\ ~Registered(req[c].node_id)
                          /\ reply[c] = ps_gen_quit_message

\* C12 as stated: a worker of which a task has read a Quit reply reads no
\* NewDataFromServer reply afterwards.
C12_NoNewDataAfterQuitSeen ==
    [][\A c \in Conns : quit_seen[c[1]] => ~Receives(c, "NewDataFromServer")]_vars

\* C13: when either task of a worker ends, for whatever reason, the other
\* task is cancelled and the worker sends no further request: a live worker
\* one of whose tasks has ended writes no request on either connection.
C13_SiblingCancelled ==
    [][\A w \in Nodes : alive[w] /\ (mpc[w] = "done" \/ hpos[w] = "done") =>
          \A c \in {main(w), hb(w)} : req'[c] = req[c] \/ req'[c] = NoMsg]_vars

\* A worker process has stopped: both of its tasks have ended.
Stopped(w) == mpc[w] \in {"done", "dead"} /\ hpos[w] \in {"done", "dead"}

\* C14: under the fair scheduling of FairSpec, once self.quit is set every
\* worker eventually stops completely: both of its tasks have ended, on a
\* Quit reply or on a refused connection.
C14_WorkersStop == quit ~> \A w \in Nodes : Stopped(w)

\* Quit is set, and every worker has stopped: one that was answered Quit
\* and one that was not killed.
C14_Witness ==
    /\ quit
    /\ \A w \in Nodes : Stopped(w)
    /\ \E w \in Nodes : alive[w] /\ quit_seen[w]

\* The owner of self.lock that the thread of the event loop would be.
LoopThread == << NoNode, "loop" >>

\* The step runs a user callback on the thread of the event loop:
\* ps_is_job_done after the sleep, or the callbacks that follow it.
LoopCalls ==
    \/ sweep_pc = "sleep" /\ sweep_timer = 0 /\ ~quit
          /\ (sweep_pc' # sweep_pc \/ sweep_timer' # sweep_timer)
    \/ ~LoopFree /\ (sweep_pc' # sweep_pc \/ sw' # sw)

\* C16 as stated: every user callback runs while the thread that invokes
\* it holds self.lock: the pool thread of a handler for ps_get_init_data,
\* ps_get_new_data and ps_process_result, the thread of the event loop for
\* ps_is_job_done and ps_node_timeout.
C16_CallbackUnderLock ==
    [][/\ \A c \in Conns : thr[c] = "running" /\ thr'[c] # "running" => lock = c
       /\ LoopCalls => lock = LoopThread]_vars

\* C18: a frame that cannot be decoded changes nothing at the coordinator:
\* the registry, self.quit, the quit counter and the user data stay as they
\* are, no callback is submitted, and the connection is closed without a
\* reply, whether the job is done or not.
C18_UndecodableFrame ==
    [][\A c \in Conns : Reads(c) /\ req[c] = Garbage =>
          /\ reply'[c] = EOF
          /\ all_nodes' = all_nodes
          /\ quit' = quit /\ quit_counter' = quit_counter
          /\ UserState' = UserState
          /\ thr' = thr /\ cb' = cb /\ lock' = lock
          /\ timeout_calls' = timeout_calls]_vars

\* An undecodable frame was dropped after the job was done, with a worker
\* in the registry.
C18_Witness ==
    /\ \E c \in Conns : req[c] = Garbage /\ reply[c] = EOF /\ quit
    /\ \E n \in Nodes : Registered(n)

\* C19: ps_save_data is called once in a run of the coordinator: only
\* when ps_main_loop has ended and the listener is closed, never while
\* self.quit is false, never a second time, and a run whose loop has ended
\* does call it.
C19_SaveOnce ==
    /\ [][save_calls' # save_calls =>
             /\ save_calls = 0 /\ save_calls' = 1
             /\ sweep_pc = "returned" /\ ~server_open /\ quit]_vars
    /\ (sweep_pc = "returned" ~> save_calls = 1)

\* The data was saved after a job with a worker that was answered Quit.
C19_Witness ==
    /\ save_calls = 1
    /\ sweep_pc = "exit"
    /\ \E w \in Nodes : alive[w] /\ quit_seen[w]

\* C20: decode_message(encode_message(v, k), k) = v for every message v of
\* the ps_gen_* functions with its payload, every nested tuple or list of
\* strings, numbers and booleans, and every key k, whatever iv Fernet drew.
C20_RoundTrip ==
    /\ codec.pc = "decoded"
    /\ codec.dkey = codec.key
    /\ \E iv \in IVs : codec.wire = encode_message(codec.value, codec.key, iv)
    => codec.out = codec.value

\* A result message with a list as payload came back as it was sent, from
\* a frame that is not the pickle of the message.
C20_Witness ==
    /\ codec.pc = "decoded"
    /\ codec.dkey = codec.key
    /\ codec.value.t = "tuple"
    /\ Len(codec.value.items) = 3
    /\ codec.value.items[3].t = "list"
    /\ codec.out = codec.value
    /\ \E iv \in IVs : codec.wire = encode_message(codec.value, codec.key, iv)

\* C17 as stated: when an exception escapes a callback of the user, the
\* coordinator terminates: once the exception of ps_get_init_data,
\* ps_get_new_data or ps_process_result has reached the handler that
\* awaited it, the listener accepts no request.
C17_CallbackErrorTerminates ==
    [][\A c \in Conns : thr[c] = "raised" /\ thr'[c] # "raised" => ~server_open']_vars

\* C21 as stated: decode_message reports the failure of the decryption, of
\* the decompression and of the deserialization as one kind of error: all
\* the exceptions a caller has seen are of one class.
C21_OneErrorKind == Cardinality(codec.errors) <= 1

\* What a file gives for a key of the object: its value, or the default.
Given(name, value, default) == IF name \in conf.data.present THEN value ELSE default

\* C22: from_json fails for every file whose secret_key is not 32 long,
\* whose heartbeat_timeout is 9 or less or whose quit_counter is 0 or
\* less; for every other file it returns an object with the values of the
\* file (the key in its urlsafe base64 form) and with 127.0.0.1, 3100,
\* 300 and 10 for the keys that are absent.
C22_LoadValidation ==
    conf.pc = "loaded" =>
       LET d == conf.data
           bad == \/ "secret_key" \notin d.present
                  \/ Len(d.secret_key) # 32
                  \/ "heartbeat_timeout" \in d.present /\ d.heartbeat_timeout <= 9
                  \/ "quit_counter" \in d.present /\ d.quit_counter <= 0
       IN
       IF bad THEN ~conf.cfg.ok
       ELSE /\ conf.cfg.ok
            /\ conf.cfg.server_address = Given("server_address", d.server_address, "127.0.0.1")
            /\ conf.cfg.server_port = Given("server_port", d.server_port, 3100)
            /\ conf.cfg.heartbeat_timeout = Given("heartbeat_timeout", d.heartbeat_timeout, 300)
            /\ conf.cfg.quit_counter = Given("quit_counter", d.quit_counter, 10)
            /\ Len(conf.cfg.secret_key) = 4 * ((Len(Utf8(d.secret_key)) + 2) \div 3)
            /\ conf.cfg.secret_key[1] = Utf8(d.secret_key)[1] \div 4

\* A file with the key alone was loaded with every default, and so was a
\* file with a heartbeat timeout of 10.
C22_Witness ==
    /\ conf.pc = "loaded"
    /\ conf.cfg.ok
    /\ conf.data.present = {"secret_key", "heartbeat_timeout"}
    /\ conf.cfg.heartbeat_timeout = 10
    /\ conf.cfg.quit_counter = 10

\* The pool thread of handler c enters its callback / leaves it / the
\* handler goes on after its await.
Calls(c) == thr[c] = "waiting" /\ thr'[c] = "running"
Returns(c) == thr[c] = "running" /\ thr'[c] # "running"
Resumes(c) == hpc[c] = "to_thread" /\ hpc'[c] # "to_thread"
\* Handler c decodes a request of the given tag while quit is false.
Handles(c, tag) == Reads(c) /\ ~quit /\ req[c].tag = tag
\* Each request is handed to a pool thread at most once, and its callback
\* is entered once before the handler goes on.
CalledOnce(c) ==
    /\ thr'[c] = "waiting" /\ thr[c] # "waiting" => Reads(c)
    /\ thr'[c] = "running" /\ thr[c] # "running" => Calls(c) /\ hpc[c] = "to_thread"
    /\ Resumes(c) => thr[c] \in {"returned", "raised"} /\ thr'[c] = "none"

\* C23: an Init of an id that is not in all_nodes, decoded while quit is
\* false, puts the id into all_nodes with the time of now before
\* ps_get_init_data is entered; ps_get_init_data(id) is called once, and
\* the reply is InitOK with the value the call returned.
C23_InitRegisters ==
    [][\A c \in Conns :
          LET n == req[c].node_id IN
          /\ Handles(c, "Init") /\ ~Registered(n) =>
                /\ InDict(all_nodes', n) /\ DictGet(all_nodes', n) = 0
                /\ \A m \in Nodes \ {n} : InDict(all_nodes', m) = Registered(m)
                /\ thr'[c] = "waiting" /\ hpc'[c] = "to_thread"
                /\ cb' = cb /\ lock' = lock /\ reply'[c] = NoMsg
          /\ req[c].tag = "Init" =>
                /\ CalledOnce(c)
                /\ Calls(c) => cb' = CbEntry("gid", n, None) /\ lock' = c
                /\ Returns(c) => ret'[c] = ps_get_init_data(cb, UserState).t.ret
                /\ Resumes(c) /\ thr[c] = "returned" =>
                      reply'[c] = ps_gen_init_message_ok(ret[c])
                /\ Writes(c) /\ reply'[c].tag = "InitOK" => Resumes(c)]_vars

\* An Init was answered with the init data of the user, its id registered.
C23_Witness ==
    \E c \in Conns :
       /\ req[c] = ps_gen_init_message(c[1])
       /\ reply[c] = ps_gen_init_message_ok(InitData)
       /\ Registered(c[1])
       /\ ~quit

\* C24: a result of an id that is in all_nodes, decoded while quit is
\* false, is handed to ps_process_result(id, result) once, with the result
\* of the request; ResultOK is written only after that call has returned,
\* and only to a request whose result was handed to ps_process_result.
C24_ResultProcessed ==
    [][\A c \in Conns :
          LET n == req[c].node_id IN
          /\ Handles(c, "NewResultFromNode") /\ Registered(n) =>
                /\ thr'[c] = "waiting" /\ hpc'[c] = "to_thread"
                /\ cb' = cb /\ lock' = lock /\ reply'[c] = NoMsg
                /\ UserState' = UserState
          /\ req[c].tag = "NewResultFromNode" =>
                /\ CalledOnce(c)
                /\ Calls(c) => cb' = CbEntry("pr_in", n, req[c].data) /\ lock' = c
                /\ Returns(c) /\ n \in DOMAIN active_nodes =>
                      job_data'[active_nodes[n]].value = req[c].data
                /\ Resumes(c) /\ thr[c] = "returned" =>
                      reply'[c] = ps_gen_result_ok_message
          /\ Writes(c) /\ reply'[c] = ps_gen_result_ok_message =>
                /\ req[c].tag = "NewResultFromNode"
                /\ Resumes(c) /\ thr[c] = "returned"]_vars

\* A result was stored in the unit of its node and answered with ResultOK.
C24_Witness ==
    \E c \in Conns : \E r \in Results :
       /\ req[c] = ps_gen_result_message(c[1], r)
       /\ reply[c] = ps_gen_result_ok_message
       /\ c[1] \in DOMAIN active_nodes
       /\ job_data[active_nodes[c[1]]].value = r

\* No unit can be given to node n: it holds no unit below max_value and
\* every unit is assigned.
NoUnitFree(n) ==
    /\ ~(n \in DOMAIN active_nodes /\ job_data[active_nodes[n]].value < max_value)
    /\ \A i \in Units : job_data[i].assigned

\* C25: a NodeNeedsMoreData of an id that is in all_nodes, decoded while
\* quit is false, is handed to ps_get_new_data(id) once, and the reply is
\* NewDataFromServer with the value the call returned, which is None when
\* no unit is free and the value of a unit otherwise.
C25_NewDataReply ==
    [][\A c \in Conns :
          LET n == req[c].node_id IN
          /\ Handles(c, "NodeNeedsMoreData") /\ Registered(n) =>
                /\ thr'[c] = "waiting" /\ hpc'[c] = "to_thread"
                /\ cb' = cb /\ lock' = lock /\ reply'[c] = NoMsg
                /\ UserState' = UserState
          /\ req[c].tag = "NodeNeedsMoreData" =>
                /\ CalledOnce(c)
                /\ Calls(c) => cb' = CbEntry("gnd_in", n, None) /\ lock' = c
                /\ Returns(c) =>
                      /\ ret'[c] = CbRun(cb, UserState).t.ret
                      /\ (ret'[c] = None) = NoUnitFree(n)
                      /\ ret'[c] # None => \E i \in Units : ret'[c] = job_data[i].value
                /\ Resumes(c) /\ thr[c] = "returned" =>
                      reply'[c] = Msg("NewDataFromServer", NoNode, ret[c])
          /\ Writes(c) /\ reply'[c].tag = "NewDataFromServer" =>
                /\ req[c].tag = "NodeNeedsMoreData"
                /\ Resumes(c) /\ thr[c] = "returned"]_vars

\* A request for data was answered with None while every unit was
\* assigned and the job was not done.
C25_Witness ==
    \E c \in Conns :
       /\ req[c] = ps_gen_need_more_data_message(c[1])
       /\ reply[c] = Msg("NewDataFromServer", NoNode, None)
       /\ NoUnitFree(c[1])
       /\ ~quit
       /\ \E i \in Units : job_data[i].value < max_value

\* C26: a NodeNeedsMoreData or a result of an id that is not in all_nodes,
\* decoded while quit is false, is answered with InitError: no callback is
\* submitted, the result is dropped and all_nodes is left as it is.
C26_UnknownIdRejected ==
    [][\A c \in Conns :
          /\ Reads(c) /\ ~quit
          /\ req[c].tag \in {"NodeNeedsMoreData", "NewResultFromNode"}
          /\ ~Registered(req[c].node_id)
          => /\ reply'[c] = Msg("InitError", NoNode, None)
             /\ hpc'[c] = "idle"
             /\ all_nodes' = all_nodes
             /\ thr' = thr /\ cb' = cb /\ lock' = lock /\ ret' = ret
             /\ UserState' = UserState]_vars

\* The result of an id that was not registered was answered with
\* InitError, and so was a request for data, while units were unfinished.
C26_Witness ==
    \E c \in Conns : \E r \in Results :
       /\ req[c] = ps_gen_result_message(c[1], r)
       /\ reply[c] = Msg("InitError", NoNode, None)
       /\ ~Registered(c[1])
       /\ thr[c] = "none"
       /\ \A i \in Units : job_data[i].value # r

Closes(c) == hpc[c] # "idle" /\ hpc'[c] = "idle"

\* C28: the handler of every connection whose frame decodes, whatever
\* the message is, has written one reply frame when it closes the
\* connection, and writes nothing at any other time.
C28_OneReplyPerConnection ==
    [][\A c \in Conns :
          /\ Closes(c) /\ Decodes(req[c]) => reply'[c] \notin {NoMsg, EOF}
          /\ Writes(c) => Closes(c)]_vars

\* The main task of worker w reads the reply of its request.
MainReads(w) == alive'[w] /\ reply[main(w)] # NoMsg /\ reply'[main(w)] = NoMsg
\* The main task of worker w sends request m: it waits for the reply, or
\* the connection is refused and its loop ends.
MainSends(w, m) ==
    IF server_open
    THEN req'[main(w)] = m /\ hpc'[main(w)] = "read" /\ mpc'[w] = "wait"
    ELSE req'[main(w)] = NoMsg /\ mpc'[w] = "done"
\* The main task of worker w sends nothing.
MainSilent(w) == req'[main(w)] = NoMsg /\ hpc'[main(w)] = hpc[main(w)]

\* C29: the mode of the main task of a worker changes by these steps
\* only: init to need_data on InitOK; need_data stays on
\* NewDataFromServer(None), followed by a sleep of 10 s before the next
\* request; need_data to has_data on NewDataFromServer(item), once the item
\* is computed; has_data to need_data on ResultOK.  On every other reply
\* in every mode the loop of the task ends.  The mode never returns to init
\* and a main task that has ended sends no request.
C29_ModeTransitions ==
    [][\A w \in Nodes :
          LET msg == reply[main(w)] IN
          /\ MainReads(w) =>
                IF mode[w] = "init" /\ msg.tag = "InitOK"
                THEN /\ mode'[w] = "need_data"
                     /\ MainSends(w, Msg("NodeNeedsMoreData", w, None))
                ELSE IF mode[w] = "need_data" /\ msg.tag = "NewDataFromServer"
                        /\ msg.data = None
                THEN /\ mode'[w] = "need_data"
                     /\ mpc'[w] = "sleep" /\ sleep_timer'[w] = 10
                     /\ MainSilent(w)
                ELSE IF mode[w] = "need_data" /\ msg.tag = "NewDataFromServer"
                THEN /\ mode'[w] = "need_data"
                     /\ mpc'[w] = "compute" /\ new_data'[w] = msg.data
                     /\ MainSilent(w)
                ELSE IF mode[w] = "has_data" /\ msg.tag = "ResultOK"
                THEN /\ mode'[w] = "need_data"
                     /\ MainSends(w, Msg("NodeNeedsMoreData", w, None))
                ELSE /\ mode'[w] = mode[w]
                     /\ mpc'[w] = "done"
                     /\ MainSilent(w)
          /\ alive'[w] /\ mpc[w] = "sleep" /\ mpc'[w] # "sleep" =>
                \/ /\ sleep_timer[w] = 0
                   /\ mode'[w] = "need_data"
                   /\ MainSends(w, Msg("NodeNeedsMoreData", w, None))
                \/ mpc'[w] = "done" /\ mode'[w] = mode[w] /\ MainSilent(w)
          /\ alive'[w] /\ mpc[w] = "compute" /\ mpc'[w] # "compute" =>
                \/ /\ mode'[w] = "has_data"
                   /\ MainSends(w, Msg("NewResultFromNode", w, new_data[w] + Increment))
                \/ mpc'[w] = "done" /\ mode'[w] = mode[w] /\ MainSilent(w)
          /\ alive'[w] /\ mode'[w] # mode[w] =>
                \/ MainReads(w)
                \/ mpc[w] = "compute" /\ mode[w] = "need_data"
          /\ alive'[w] /\ mode'[w] = "init" => mode[w] = "init"
          /\ alive'[w] /\ mpc[w] = "done" =>
                /\ mpc'[w] = "done" /\ mode'[w] = mode[w]
                /\ hpc'[main(w)] # "read" \/ hpc[main(w)] = "read"
                /\ req'[main(w)] \in {req[main(w)], NoMsg}]_vars

\* The main task of a worker has gone from init over need_data to
\* has_data, and has ended there on a reply.
C29_Witness ==
    \E w \in Nodes :
       /\ alive[w]
       /\ mode[w] = "has_data"
       /\ mpc[w] = "done"
       /\ hpos[w] # "done"
       /\ server_open

\* C30: an exchange of a task of a worker that fails to connect, to write
\* or to read ends as a refused connection does: the task gets
\* ConnectionError for an answer and leaves its loop by break, which takes
\* no other step of the worker with it, and no request is sent again.
C30_FailureIsConnectionError ==
    [][\A w \in Nodes :
          /\ alive'[w] /\ reply[main(w)] = Reset /\ reply'[main(w)] = NoMsg =>
                /\ mpc'[w] = "done" /\ MainSilent(w)
                /\ hpos'[w] = hpos[w]
          /\ alive'[w] /\ reply[hb(w)] = Reset /\ reply'[hb(w)] = NoMsg =>
                /\ hpos'[w] = "done" /\ req'[hb(w)] = NoMsg
                /\ mpc'[w] = mpc[w]]_vars

\* The main task of worker w writes a request.
MainRequest(w) == req'[main(w)] # req[main(w)] /\ req'[main(w)] # NoMsg /\ alive'[w]

\* C31: the main task of a worker sends Init once, as its first request;
\* every request of it carries the id of the worker; NodeNeedsMoreData and
\* results are sent only after InitOK was read; ps_init is called once,
\* with the data of InitOK, before the first NodeNeedsMoreData is sent.
C31_RegistersOnce ==
    [][\A w \in Nodes :
          /\ MainRequest(w) =>
                /\ req'[main(w)].node_id = w
                /\ req'[main(w)].tag \in {"Init", "NodeNeedsMoreData", "NewResultFromNode"}
                /\ (req'[main(w)].tag = "Init") = (mpc[w] = "new")
                /\ req'[main(w)].tag # "Init" =>
                      mode'[w] # "init" /\ init_data'[w] = InitData
          /\ alive'[w] /\ mpc[w] # "new" => mpc'[w] # "new"
          /\ alive'[w] /\ init_data'[w] # init_data[w] =>
                /\ mode[w] = "init" /\ mode'[w] = "need_data"
                /\ reply[main(w)].tag = "InitOK"
                /\ init_data'[w] = reply[main(w)].data
          /\ alive'[w] /\ mode[w] = "init" /\ mode'[w] # "init" =>
                init_data'[w] = reply[main(w)].data]_vars

\* A worker has called ps_init with the data of InitOK and has asked for
\* data under its id.
C31_Witness ==
    \E w \in Nodes :
       /\ alive[w]
       /\ init_data[w] = InitData
       /\ mode[w] = "need_data"
       /\ req[main(w)] = Msg("NodeNeedsMoreData", w, None)

\* The heartbeat task of worker w writes its request / reads the reply.
HbSends(w) == req'[hb(w)] # req[hb(w)] /\ req'[hb(w)] # NoMsg /\ alive'[w]
HbReads(w) == alive'[w] /\ reply[hb(w)] # NoMsg /\ reply'[hb(w)] = NoMsg

\* C32: the heartbeat task of a worker sleeps heartbeat_timeout seconds and
\* then makes one exchange of Heartbeat(id); it sleeps again on HeartbeatOK
\* only and ends on HeartbeatError, Quit, a failed exchange and any other
\* reply; its steps leave the mode, the item and the result of the main
\* task as they are.
C32_HeartbeatTask ==
    [][\A w \in Nodes :
          /\ alive'[w] /\ hpos[w] = "sleep" /\ hpos'[w] # "sleep" =>
                \/ /\ hb_timer[w] = 0
                   /\ IF server_open
                      THEN /\ req'[hb(w)] = Msg("Heartbeat", w, None)
                           /\ hpos'[w] = "wait"
                      ELSE hpos'[w] = "done" /\ req'[hb(w)] = NoMsg
                \/ hpos'[w] = "done" /\ req'[hb(w)] = req[hb(w)]
          /\ HbSends(w) => hpos[w] = "sleep" /\ hb_timer[w] = 0
          /\ alive'[w] /\ hpos'[w] = "sleep" /\ hpos[w] # "sleep" =>
                /\ hb_timer'[w] = 10
                /\ hpos[w] = "new" \/ (HbReads(w) /\ reply[hb(w)].tag = "HeartbeatOK")
          /\ HbReads(w) =>
                /\ hpos'[w] = IF reply[hb(w)].tag = "HeartbeatOK" THEN "sleep" ELSE "done"
                /\ req'[hb(w)] = NoMsg
          /\ alive'[w] /\ hpos[w] = "done" => hpos'[w] = "done" /\ ~HbSends(w)
          /\ HbSends(w) \/ HbReads(w) =>
                /\ mode'[w] = mode[w]
                /\ new_data'[w] = new_data[w]
                /\ new_result'[w] = new_result[w]
                /\ init_data'[w] = init_data[w]]_vars

\* The heartbeat task has ended on a reply while the main task, holding a
\* result, waits for its answer.
C32_Witness ==
    \E w \in Nodes :
       /\ alive[w]
       /\ hpos[w] = "done"
       /\ mode[w] = "has_data" /\ mpc[w] = "wait"
       /\ new_result[w] # None

\* C33 as stated: every message of a registered id that is handled while
\* quit is false, an Init as well, sets the time of the id to now.
C33_EveryMessageTouches ==
    [][\A c \in Conns :
          LET n == req[c].node_id IN
          /\ Reads(c) /\ ~quit /\ Registered(n)
          /\ req[c].tag \in {"Init", "Heartbeat", "NodeNeedsMoreData", "NewResultFromNode"}
          => InDict(all_nodes', n) /\ DictGet(all_nodes', n) = 0]_vars

\* C33: a Heartbeat, a NodeNeedsMoreData and a result of a registered id,
\* handled while quit is false, set the time of the id to now before any
\* callback runs; an Init of a registered id, and any message decoded while
\* quit is true, leave all_nodes as it is.
C33_MessagesTouch ==
    [][\A c \in Conns :
          LET n == req[c].node_id IN
          /\ Reads(c) /\ ~quit /\ Registered(n)
             /\ req[c].tag \in {"Heartbeat", "NodeNeedsMoreData", "NewResultFromNode"}
             => /\ InDict(all_nodes', n) /\ DictGet(all_nodes', n) = 0
                /\ cb' = cb /\ lock' = lock
          /\ Reads(c) /\ ~quit /\ Registered(n) /\ req[c].tag = "Init"
             => all_nodes' = all_nodes
          /\ Reads(c) /\ quit => all_nodes' = all_nodes]_vars

\* A result has set the time of its node to now while the other node has
\* been silent for a clock step.
C33_Witness ==
    \E c \in Conns : \E r \in Results :
       /\ req[c] = ps_gen_result_message(c[1], r)
       /\ reply[c] = ps_gen_result_ok_message
       /\ Registered(c[1]) /\ Age(c[1]) = 0
       /\ \E m \in Nodes : Registered(m) /\ Age(m) > 0

\* C34: all_nodes is changed by the coordinator in two ways only: an Init
\* of an id that is not in it, handled while quit is false, puts the id
\* in, and a Heartbeat, NodeNeedsMoreData or result of an id that is in it
\* sets the time of that id to now.  No step takes an id out or changes
\* the time of another id: the sweep, ps_node_timeout, the quit countdown
\* and the error replies leave all_nodes as it is, and the ages grow with
\* the clock only, all alike.
C34_RegistryFrame ==
    [][\A n \in Nodes :
          /\ Registered(n) => InDict(all_nodes', n)
          /\ ~Registered(n) /\ InDict(all_nodes', n) =>
                /\ DictGet(all_nodes', n) = 0
                /\ \E c \in Conns :
                      Handles(c, "Init") /\ req[c].node_id = n
          /\ Registered(n) /\ DictGet(all_nodes', n) < Age(n) =>
                /\ DictGet(all_nodes', n) = 0
                /\ \E c \in Conns :
                      /\ Reads(c) /\ ~quit /\ req[c].node_id = n
                      /\ req[c].tag \in {"Heartbeat", "NodeNeedsMoreData",
                                         "NewResultFromNode"}
          /\ Registered(n) /\ DictGet(all_nodes', n) > Age(n) =>
                /\ \A c \in Conns : hpc'[c] = hpc[c]
                /\ sweep_pc' = sweep_pc
                /\ \A m \in Nodes : Registered(m) =>
                      DictGet(all_nodes', m) = Min(Age(m) + TimeStep, AgeCap)]_vars

\* ps_node_timeout was called for a node, which is no longer active and
\* still registered, with the job done.
C34_Witness ==
    \E n \in Nodes :
       /\ Registered(n)
       /\ timeout_calls[n] > 0
       /\ n \notin DOMAIN active_nodes
       /\ quit

\* How often ps_node_timeout(n) was called in the check.
CalledTimes(n) == Cardinality({i \in 1..Len(hbc.called) : hbc.called[i] = n})
\* The last time of node n in the dict of the check, or none.
SeenAt(n) == {hbc.all_nodes[i].seen : i \in {j \in 1..Len(hbc.all_nodes) : hbc.all_nodes[j].id = n}}

\* C35 as stated: one call of ps_check_heartbeat calls ps_node_timeout
\* once for every registered id with now - last_seen + 1 > heartbeat_timeout
\* and for no other id.
C35_TimeoutPredicate ==
    hbc.pc = "checked" =>
       \A n \in Nodes :
          CalledTimes(n) =
             IF \E v \in SeenAt(n) : hbc.now - v + 10 > 10 * 10 THEN 1 ELSE 0

\* C35: one call of ps_check_heartbeat, with now read once, calls
\* ps_node_timeout once for every registered id with
\* int(now - last_seen + 1) > heartbeat_timeout, which for a timeout of
\* whole seconds is now - last_seen >= heartbeat_timeout, and for no
\* other id.
C35_TimeoutPredicateInt ==
    hbc.pc = "checked" =>
       \A n \in Nodes :
          CalledTimes(n) =
             IF \E v \in SeenAt(n) : hbc.now - v >= 10 * 10 THEN 1 ELSE 0

\* Of two registered nodes the one silent for 10 s was passed to
\* ps_node_timeout and the one silent for 9.5 s to 9.9 s was not.
C35_Witness ==
    /\ hbc.pc = "checked"
    /\ Len(hbc.all_nodes) = 2
    /\ Len(hbc.called) = 1
    /\ \E v \in SeenAt(hbc.called[1]) : hbc.now - v = 100
    /\ \E n \in Nodes : \E v \in SeenAt(n) : hbc.now - v \in 95..99

\* C15 as stated: of two unanswered requests of one worker, the one sent
\* first is answered first, whichever tasks sent them.
C15_ReplyOrder ==
    [][\A c \in Conns : hpc[c] # "idle" /\ hpc'[c] = "idle" => older[c[1]] # Other(c)[2]]_vars

\* C2 as stated: a callback of the loop thread (ps_is_job_done,
\* ps_node_timeout) and a callback of a pool thread (ps_get_init_data,
\* ps_get_new_data, ps_process_result) are never under way at the same time.
C2_Serialized == ~(LoopInCallback /\ ThreadInCallback)

\* C3 as stated: an Init with an id of the registry is answered InitError,
\* calls no callback and leaves the registry as it is.
C3_InitError ==
    [][\A c \in Conns :
          Reads(c) /\ req[c].tag = "Init" /\ Registered(req[c].node_id)
          => /\ reply'[c] = ps_gen_init_message_error
             /\ thr'[c] = thr[c]
             /\ all_nodes' = all_nodes]_vars

\* C3, amended: an Init with an id of the registry calls no callback and
\* leaves the registry as it is; it is answered InitError while quit is
\* false and Quit once it is true; the registry holds an id once at most.
C3_Idempotent ==
    /\ [](\A i, j \in 1..Len(all_nodes) : all_nodes[i].id = all_nodes[j].id => i = j)
    /\ [][\A c \in Conns :
             Reads(c) /\ req[c].tag = "Init" /\ Registered(req[c].node_id)
             => /\ reply'[c] = IF quit THEN ps_gen_quit_message
                               ELSE ps_gen_init_message_error
                /\ thr'[c] = thr[c]
                /\ all_nodes' = all_nodes]_vars

C3_Witness ==
    \E c \in Conns :
        /\ req[c].tag = "Init"
        /\ reply[c] = ps_gen_init_message_error
        /\ Registered(req[c].node_id)
        /\ Len(all_nodes) = 1

\* C4 as stated: when a loop body of ps_main_loop ends, ps_node_timeout has
\* been called for every registered node whose last message is older than
\* heartbeat_timeout.
C4_TimeoutAtNextTick ==
    [][TickEnds => \A n \in Nodes :
          Registered(n) /\ Age(n) > heartbeat_timeout => timeout_calls'[n] >= 1]_vars

\* C4, amended: the same for a loop body in which self.quit is false and
\* ps_is_job_done returns false (quit is still false when it ends).
C4_TimeoutWhileRunning ==
    [][TickEnds /\ ~quit' => \A n \in Nodes :
          Registered(n) /\ Age(n) > heartbeat_timeout => timeout_calls'[n] >= 1]_vars

C4_Witness ==
    ~quit /\ sweep_timer = SweepPeriod /\ \E n \in Nodes :
        Registered(n) /\ Age(n) > heartbeat_timeout /\ timeout_calls[n] >= 1

\* C5 as stated: ps_node_timeout is called once at most for a worker that
\* was killed, however many sweep ticks follow.
C5_TimeoutOnce == \A w \in Nodes : mpc[w] = "dead" => timeout_calls[w] <= 1

\* A worker holds a result that the bound MaxResult keeps it from sending.
ResultCapped ==
    \E w \in Nodes : mpc[w] = "compute" /\ ps_process_data(new_data[w]) > MaxResult

\* C6 as stated: once a worker was killed while another stays alive, under
\* the fair scheduling of FairSpec the job is eventually done and the
\* listener is closed (runs cut short by the bound MaxResult aside).
C6_Reassigned ==
    (\E w \in Nodes : mpc[w] = "dead") ~> (~server_open \/ ResultCapped)

\* C7 as stated: while the job runs, ps_node_timeout is not called for a
\* worker process that is alive (its heartbeat task sends a heartbeat after
\* every sleep of heartbeat_timeout seconds).
C7_NoSpuriousTimeout == \A w \in Nodes : alive[w] /\ ~quit => timeout_calls[w] = 0

\* C8 as stated: when ps_main_loop has returned, every unit has the value
\* max_value and is assigned.
C8_EndResult ==
    sweep_pc = "returned" =>
        \A i \in Units : job_data[i].value = max_value /\ job_data[i].assigned

\* C9: quit is false at first; it changes only from false to true, in a
\* loop body of ps_main_loop in which ps_is_job_done returned true (every
\* unit is at max_value or above).
C9_QuitOnce ==
    /\ ~quit
    /\ [][quit' # quit =>
             /\ ~quit /\ quit'
             /\ SweepWake \/ SweepStep
             /\ sw'.ret
             /\ JobDone]_vars

C9_Witness == quit /\ sw.ret /\ JobDone

\* C10: quit_counter changes only in a loop body of ps_main_loop that finds
\* quit true, by one down; it never falls below zero; the listener closes
\* in the step quit_counter reaches zero; it is zero when ps_main_loop has
\* returned.
C10_Countdown ==
    [][/\ quit_counter' >= 0
       /\ SweepWake /\ quit => quit_counter' = quit_counter - 1
       /\ quit_counter' # quit_counter => SweepWake /\ quit
       /\ (server_open /\ ~server_open') = (quit_counter # 0 /\ quit_counter' = 0)
       /\ ~server_open => ~server_open'
       /\ sweep_pc' = "returned" => quit_counter' = 0]_vars

C10_Witness == sweep_pc = "returned" /\ quit_counter = 0 /\ ~server_open /\ quit

\* The pool threads that are inside a callback of a handler.
InCallback == {c \in Conns : thr[c] = "running"}

\* C37: ps_get_init_data, ps_get_new_data and ps_process_result never run
\* at the same time: at most one pool thread is inside a callback and it
\* is the owner of self.lock; the lock is free again when the callback is
\* left, by return or by an exception; a pool thread that waits for the
\* lock gets it.
C37_CallbacksExclusive ==
    /\ [](/\ Cardinality(InCallback) <= 1
          /\ \A c \in Conns : thr[c] = "running" <=> lock = c)
    /\ [][\A c \in Conns : thr[c] = "running" /\ thr'[c] # "running"
             => lock' = NoConn /\ thr'[c] \in {"returned", "raised"}]_vars
    /\ \A c \in Conns : (thr[c] = "waiting") ~> (thr[c] = "running")

\* A callback has raised and the pool thread that waited for the lock
\* meanwhile is inside its callback.
C37_Witness ==
    \E c, d \in Conns :
       /\ thr[c] = "raised" /\ hpc[c] = "to_thread"
       /\ thr[d] = "running" /\ lock = d /\ cb # NoCb

\* The main task of worker w reads an item in a NewDataFromServer reply
\* while in mode need_data.
TakesItem(w) ==
    /\ MainReads(w)
    /\ mode[w] = "need_data"
    /\ reply[main(w)].tag = "NewDataFromServer"
    /\ reply[main(w)].data # None

\* C38: the worker holds an item exactly while ps_process_data works on
\* it, so ps_process_data is never called with None and never twice with
\* one item; an item is taken only from a NewDataFromServer reply read in
\* mode need_data, and every such item is taken; when ps_process_data
\* returns, one result message with its return value is sent and the item
\* is dropped (an exception in the heartbeat task meanwhile ends the main
\* task, which then sends nothing more); a result is sent only then, and no
\* NodeNeedsMoreData is sent while an item is held.
C38_ItemProcessedOnce ==
    /\ [](\A w \in Nodes :
             /\ mpc[w] = "compute" => new_data[w] # None
             /\ new_data[w] # None => mpc[w] \in {"compute", "done"})
    /\ [][\A w \in Nodes :
             /\ TakesItem(w) =>
                   /\ new_data'[w] = reply[main(w)].data
                   /\ mpc'[w] = "compute"
                   /\ MainSilent(w)
             /\ new_data'[w] # None /\ new_data'[w] # new_data[w] => TakesItem(w)
             /\ mpc[w] = "compute" /\ mpc'[w] # "compute" /\ alive'[w] /\ ~HbReads(w) =>
                   /\ MainSends(w, Msg("NewResultFromNode", w, ps_process_data(new_data[w])))
                   /\ new_result'[w] = ps_process_data(new_data[w])
                   /\ mode'[w] = "has_data"
                   /\ new_data'[w] = None
             /\ MainRequest(w) /\ req'[main(w)].tag = "NewResultFromNode" =>
                   mpc[w] = "compute"
             /\ MainRequest(w) /\ req'[main(w)].tag = "NodeNeedsMoreData" =>
                   mpc[w] # "compute" /\ new_data[w] = None]_vars

\* A worker has computed an item, sent the result, read ResultOK and asks
\* for the next item.
C38_Witness ==
    \E w \in Nodes :
       /\ alive[w]
       /\ new_result[w] = Increment
       /\ new_data[w] = None
       /\ mode[w] = "need_data"
       /\ req[main(w)] = Msg("NodeNeedsMoreData", w, None)

\* C39: once self.quit is true it stays true and ps_main_loop calls no
\* user callback any more: it is in its sleep, or past its loop, with no
\* call of ps_is_job_done or ps_node_timeout begun, and no worker is counted
\* as timed out; the turn of the loop that sets self.quit goes to the sleep
\* without a call of ps_node_timeout.
C39_QuietAfterQuit ==
    [][/\ quit =>
             /\ quit'
             /\ LoopFree /\ LoopFree'
             /\ sw'.todo = << >>
             /\ timeout_calls' = timeout_calls
       /\ ~quit /\ quit' =>
             /\ sweep_pc' = "sleep"
             /\ sweep_timer' = SweepPeriod
             /\ sw'.todo = << >>
             /\ timeout_calls' = timeout_calls]_vars

\* The countdown has begun while a worker in the registry is silent for
\* longer than heartbeat_timeout and was not reported.
C39_Witness ==
    /\ quit
    /\ quit_counter < MaxQuitCounter
    /\ \E i \in DOMAIN all_nodes :
          NodeTimedOut(all_nodes[i].age) /\ timeout_calls[all_nodes[i].id] = 0

\* C40: whatever integer the quit counter of the configuration is, once
\* self.quit is true ps_main_loop leaves its loop and the listener is
\* closed after finitely many turns of the loop.
C40_CoordinatorTerminates == quit ~> ~server_open

\* C36: under the fair scheduling of FairSpecFlaky, when the main task of
\* a live worker has ended while the coordinator runs and the job is not
\* done, ps_node_timeout is eventually called for the id of the worker
\* (or the job is done by the others; runs cut short by the bound
\* MaxResult aside).
C36_EndedWorkerTimesOut ==
    \A w \in Nodes :
       (alive[w] /\ mpc[w] = "done" /\ ~quit /\ server_open)
          ~> (timeout_calls[w] > 0 \/ quit \/ ResultCapped)

====
